---- MODULE Spec2Model ----
(***************************************************************************)
(* The AgentJobs escrow ledger (src/contracts/AgentJobs.sol) as a state    *)
(* machine.  The contract's storage, its ether balance and the block       *)
(* timestamp are the state; every external function is one action.  A      *)
(* function of the contract is an operator from the storage at the start   *)
(* of the transaction to an outcome (the storage written, the revert       *)
(* message, the ether sent); a failed require gives the outcome Revert,    *)
(* which holds the storage of the start of the transaction.                *)
(*                                                                         *)
(* Amounts are counted in units of 10^13 wei (1 ether = 100000), times in  *)
(* seconds.                                                                *)
(***************************************************************************)
EXTENDS Integers, Sequences, FiniteSets, Bags, TLC

\* ------------------------------------------------------------------ bounds

\* The job counter is capped: postJob is not offered once MaxJobs jobs exist.
MaxJobs == 2

\* ------------------------------------------------------- program constants

MIN_PAYMENT == 1000
STAKE_PERCENT == 10
AUTO_APPROVE_DELAY == 86400
PROTOCOL_FEE == 25
HOUR == 3600
Ether == 100000

\* ------------------------------------------------------------------ inputs

\* Accounts; the deployer is "owner".  NoAddr is address(0).
Addr == {"owner", "alice", "bob"}
NoAddr == "0x0"
Deployer == "owner"

\* The account that refuses ether in a transaction: none, or any account
\* (a contract whose receive function fails).
Refusers == Addr \cup {NoAddr}

\* The calls the behaviours are built from.
\* The accounts that post jobs, and those that claim them.
Clients == {"alice"}
Workers == {"bob"}
\* msg.value and _deadlineHours of postJob: a payment whose stake and fee are
\* rounded down, and one ether for 24 hours.
PostArgs == {<<1019, 1>>, <<Ether, 24>>}
\* _resultHash of submitResult.
Results == {"r1"}
\* The accounts setFeeRecipient names.
FeeRecipients == {Deployer, "bob"}

\* The calls every reachable state is tried with (the claims below): both
\* sides of every require.
AllPayments == {MIN_PAYMENT - 1, MIN_PAYMENT, 1019, Ether}
AllDeadlineHours == {0, 1, 24, 168, 169}
AllResults == {"", "r1", "r2"}

JobIds == 1..MaxJobs

\* ------------------------------------------------------------------- state

VARIABLES
    jobCounter,     \* uint256 jobCounter
    totalPayouts,   \* uint256 totalPayouts
    owner,          \* address owner
    feeRecipient,   \* address feeRecipient
    jobs,           \* mapping(uint256 => Job) _jobs
    agentStats,     \* mapping(address => AgentStats) _agentStats
    jobsPosted,     \* mapping(address => uint256[]) _agentJobsPosted
    jobsClaimed,    \* mapping(address => uint256[]) _agentJobsClaimed
    balance,        \* address(this).balance
    now,            \* block.timestamp
    history,        \* per job, the statuses it has had, oldest first
    paidOut         \* per job, the ether its transactions have sent out

\* The worker agent (WorkerAgent of src/agent/worker.js) and the timers and
\* asynchronous calls it has pending.
VARIABLES
    isRunning,      \* this.isRunning
    activeJobs,     \* this.activeJobs, an array of job ids
    failedJobs,     \* this.failedJobs, a Set of job ids
    intervalId,     \* this.intervalId: a timer handle, 0 for null
    armed,          \* the setInterval timers that are armed, by handle
    deletions,      \* per job id, how many setTimeout(failedJobs.delete) pend
    cycles,         \* the start() and scanAndProcess() calls in progress
    stops,          \* how many times stop() has been called
    running,        \* per job id, the doWork calls that have not returned
    started         \* per job id, how many doWork calls there have been

\* The contract service (ContractService of src/unnamed/part_000): one
\* getOpenJobs call, followed query by query.
VARIABLES
    fetch           \* the getOpenJobs call in progress and what it has done

ledgerVars == <<jobCounter, totalPayouts, owner, feeRecipient, jobs, agentStats,
                jobsPosted, jobsClaimed, balance, now, history, paidOut>>
agentVars == <<isRunning, activeJobs, failedJobs, intervalId, armed, deletions,
               cycles, stops, running, started>>
serviceVars == <<fetch>>
vars == <<ledgerVars, agentVars, serviceVars>>

\* How far the model follows the agent: the jobs that are open on the ledger
\* when the agent is constructed (WorkerJobs where the agent is followed
\* until it is busy, AgentJobs where it is followed throughout), the start()
\* and scanAndProcess() calls that are in progress at a time, and the calls
\* of stop().
WorkerJobs == 4
AgentJobs == 2
MaxCycles == 4
MaxStops == 1

WorkerJobIds == 1..WorkerJobs

\* A start() or scanAndProcess() call in progress is at the await named by
\* pc; by tells whether start() made the call or a tick of the timer; todo
\* holds the candidates the loop has yet to visit and job the one it is at.
NoCycle == [pc |-> "none", by |-> "", todo |-> <<>>, job |-> 0, result |-> ""]

\* No getOpenJobs call is in progress.
NoFetch == [pc |-> "idle", query |-> "", i |-> 0, jobs |-> <<>>, attempt |-> 0,
            log |-> <<>>]

\* The agent, and the contract service it is given, as their constructors
\* leave them.
NewAgent ==
    /\ isRunning = FALSE
    /\ activeJobs = <<>>
    /\ failedJobs = {}
    /\ intervalId = 0
    /\ armed = {}
    /\ deletions = [i \in WorkerJobIds |-> 0]
    /\ cycles = EmptyBag
    /\ stops = 0
    /\ running = [i \in WorkerJobIds |-> 0]
    /\ started = [i \in WorkerJobIds |-> 0]
    /\ fetch = NoFetch

JobStatus == {"Open", "Claimed", "Submitted", "Completed", "Disputed",
              "Cancelled", "Expired"}

\* A slot of _jobs that was never written: every field is zero, and the zero
\* of JobStatus is Open.
ZeroJob ==
    [id |-> 0, client |-> NoAddr, worker |-> NoAddr, payment |-> 0,
     stakeRequired |-> 0, workerStake |-> 0, createdAt |-> 0, deadline |-> 0,
     submittedAt |-> 0, resultHash |-> "", status |-> "Open"]

ZeroStats ==
    [jobsPosted |-> 0, jobsCompleted |-> 0, jobsFailed |-> 0,
     totalEarned |-> 0, totalSpent |-> 0, reputation |-> 0]

\* The contract's storage and balance as one value.
Ledger ==
    [jobCounter |-> jobCounter, totalPayouts |-> totalPayouts, owner |-> owner,
     feeRecipient |-> feeRecipient, jobs |-> jobs, agentStats |-> agentStats,
     jobsPosted |-> jobsPosted, jobsClaimed |-> jobsClaimed,
     balance |-> balance]

\* _jobs[_jobId]: a mapping reads zero where nothing was written.
JobAt(L, jobId) == IF jobId \in DOMAIN L.jobs THEN L.jobs[jobId] ELSE ZeroJob

\* ---------------------------------------------------------------- outcomes

\* The transaction ran to its end: storage L is kept, `sent` lists the ether
\* transfers it made, `ret` is the value returned.
Ok(L, sent, ret) == [L |-> L, err |-> "", sent |-> sent, ret |-> ret]

\* A failed require: the EVM restores the storage L0 of the start of the
\* transaction, returns msg.value, and undoes every transfer.
Revert(L0, msg) == [L |-> L0, err |-> msg, sent |-> <<>>, ret |-> 0]

\* ----------------------------------------------------- internal functions

\* _updateReputation without the cap on a success.
_updateReputation_NoCap(L, agent, success) ==
    LET rep == L.agentStats[agent].reputation IN
    IF success
    THEN [L EXCEPT !.agentStats[agent].reputation = rep + 100]
    ELSE IF rep >= 100
         THEN [L EXCEPT !.agentStats[agent].reputation = rep - 100]
         ELSE [L EXCEPT !.agentStats[agent].reputation = 0]

_updateReputation(L, agent, success) ==
    LET rep == L.agentStats[agent].reputation IN
    IF success
    THEN IF rep <= 900
         THEN [L EXCEPT !.agentStats[agent].reputation = rep + 100]
         ELSE [L EXCEPT !.agentStats[agent].reputation = 1000]
    ELSE IF rep >= 100
         THEN [L EXCEPT !.agentStats[agent].reputation = rep - 100]
         ELSE [L EXCEPT !.agentStats[agent].reputation = 0]

\* _sendPayment without the require on the result of the call.
_sendPayment_Unchecked(L0, o, to, amount, refuser) ==
    LET sent == (to # refuser) /\ (o.L.balance >= amount) IN
    IF o.err # "" THEN o
    ELSE IF ~sent THEN o
    ELSE Ok([o.L EXCEPT !.balance = @ - amount],
            Append(o.sent, [to |-> to, amount |-> amount]), o.ret)

\* _to.call{value: _amount}(""): `refuser` is the account whose receive
\* function fails in this transaction (NoAddr: none does).  L0 is the storage
\* at the start of the transaction, o the outcome so far.
_sendPayment(L0, o, to, amount, refuser) ==
    LET sent == (to # refuser) /\ (o.L.balance >= amount) IN
    IF o.err # "" THEN o
    ELSE IF ~sent THEN Revert(L0, "Payment failed")
    ELSE Ok([o.L EXCEPT !.balance = @ - amount],
            Append(o.sent, [to |-> to, amount |-> amount]), o.ret)

\* _completeJob that counts the returned stake as earnings.
_completeJob_EarnsStake(L0, L, jobId, refuser) ==
    LET job == L.jobs[jobId]
        L1 == [L EXCEPT !.jobs[jobId].status = "Completed"]
        fee == (job.payment * PROTOCOL_FEE) \div 1000
        payout == job.payment - fee + job.workerStake
        L2 == [L1 EXCEPT !.agentStats[job.worker].jobsCompleted = @ + 1,
                         !.agentStats[job.worker].totalEarned = @ + payout]
        L3 == _updateReputation(L2, job.worker, TRUE)
        L4 == [L3 EXCEPT !.totalPayouts = @ + payout]
        o1 == IF fee > 0
              THEN _sendPayment(L0, Ok(L4, <<>>, 0), L4.feeRecipient, fee, refuser)
              ELSE Ok(L4, <<>>, 0)
    IN  _sendPayment(L0, o1, job.worker, payout, refuser)

\* _completeJob with a payout that leaves out the worker's stake.
_completeJob_NoStake(L0, L, jobId, refuser) ==
    LET job == L.jobs[jobId]
        L1 == [L EXCEPT !.jobs[jobId].status = "Completed"]
        fee == (job.payment * PROTOCOL_FEE) \div 1000
        payout == job.payment - fee
        L2 == [L1 EXCEPT !.agentStats[job.worker].jobsCompleted = @ + 1,
                         !.agentStats[job.worker].totalEarned =
                             @ + (job.payment - fee)]
        L3 == _updateReputation(L2, job.worker, TRUE)
        L4 == [L3 EXCEPT !.totalPayouts = @ + payout]
        o1 == IF fee > 0
              THEN _sendPayment(L0, Ok(L4, <<>>, 0), L4.feeRecipient, fee, refuser)
              ELSE Ok(L4, <<>>, 0)
    IN  _sendPayment(L0, o1, job.worker, payout, refuser)

_completeJob(L0, L, jobId, refuser) ==
    LET job == L.jobs[jobId]
        L1 == [L EXCEPT !.jobs[jobId].status = "Completed"]
        fee == (job.payment * PROTOCOL_FEE) \div 1000
        payout == job.payment - fee + job.workerStake
        L2 == [L1 EXCEPT !.agentStats[job.worker].jobsCompleted = @ + 1,
                         !.agentStats[job.worker].totalEarned =
                             @ + (job.payment - fee)]
        L3 == _updateReputation(L2, job.worker, TRUE)
        L4 == [L3 EXCEPT !.totalPayouts = @ + payout]
        o1 == IF fee > 0
              THEN _sendPayment(L0, Ok(L4, <<>>, 0), L4.feeRecipient, fee, refuser)
              ELSE Ok(L4, <<>>, 0)
    IN  _sendPayment(L0, o1, job.worker, payout, refuser)

\* ----------------------------------------------------- external functions

\* postJob that rounds the stake requirement up.
postJob_StakeRoundsUp(L, sender, value, deadlineHours, timestamp) ==
    IF ~(value >= MIN_PAYMENT) THEN Revert(L, "Payment too low")
    ELSE IF ~(deadlineHours >= 1 /\ deadlineHours <= 168)
    THEN Revert(L, "Deadline 1-168 hours")
    ELSE
    LET newJobId == L.jobCounter + 1
        stakeReq == ((value * STAKE_PERCENT) + 99) \div 100
        deadlineTime == timestamp + (deadlineHours * HOUR)
        job == [ZeroJob EXCEPT !.id = newJobId, !.client = sender,
                               !.payment = value, !.stakeRequired = stakeReq,
                               !.createdAt = timestamp,
                               !.deadline = deadlineTime, !.status = "Open"]
    IN  Ok([L EXCEPT !.jobCounter = newJobId,
                     !.balance = @ + value,
                     !.jobs[newJobId] = job,
                     !.agentStats[sender].jobsPosted = @ + 1,
                     !.agentStats[sender].totalSpent = @ + value,
                     !.jobsPosted[sender] = Append(@, newJobId)],
           <<>>, newJobId)

\* postJob whose deadline bound excludes 168 hours.
postJob_Below168(L, sender, value, deadlineHours, timestamp) ==
    IF ~(value >= MIN_PAYMENT) THEN Revert(L, "Payment too low")
    ELSE IF ~(deadlineHours >= 1 /\ deadlineHours < 168)
    THEN Revert(L, "Deadline 1-168 hours")
    ELSE
    LET newJobId == L.jobCounter + 1
        stakeReq == (value * STAKE_PERCENT) \div 100
        deadlineTime == timestamp + (deadlineHours * HOUR)
        job == [ZeroJob EXCEPT !.id = newJobId, !.client = sender,
                               !.payment = value, !.stakeRequired = stakeReq,
                               !.createdAt = timestamp,
                               !.deadline = deadlineTime, !.status = "Open"]
    IN  Ok([L EXCEPT !.jobCounter = newJobId,
                     !.balance = @ + value,
                     !.jobs[newJobId] = job,
                     !.agentStats[sender].jobsPosted = @ + 1,
                     !.agentStats[sender].totalSpent = @ + value,
                     !.jobsPosted[sender] = Append(@, newJobId)],
           <<>>, newJobId)

postJob(L, sender, value, deadlineHours, timestamp) ==
    IF ~(value >= MIN_PAYMENT) THEN Revert(L, "Payment too low")
    ELSE IF ~(deadlineHours >= 1 /\ deadlineHours <= 168)
    THEN Revert(L, "Deadline 1-168 hours")
    ELSE
    LET newJobId == L.jobCounter + 1
        stakeReq == (value * STAKE_PERCENT) \div 100
        deadlineTime == timestamp + (deadlineHours * HOUR)
        job == [ZeroJob EXCEPT !.id = newJobId, !.client = sender,
                               !.payment = value, !.stakeRequired = stakeReq,
                               !.createdAt = timestamp,
                               !.deadline = deadlineTime, !.status = "Open"]
    IN  Ok([L EXCEPT !.jobCounter = newJobId,
                     !.balance = @ + value,
                     !.jobs[newJobId] = job,
                     !.agentStats[sender].jobsPosted = @ + 1,
                     !.agentStats[sender].totalSpent = @ + value,
                     !.jobsPosted[sender] = Append(@, newJobId)],
           <<>>, newJobId)

\* claimJob that also takes a job that is already Claimed.
claimJob_Reclaim(L, sender, value, jobId, timestamp) ==
    LET job == JobAt(L, jobId) IN
    IF ~(job.id # 0) THEN Revert(L, "Job not found")
    ELSE IF ~(job.status \in {"Open", "Claimed"}) THEN Revert(L, "Job not open")
    ELSE IF ~(sender # job.client) THEN Revert(L, "Cannot claim own job")
    ELSE IF ~(timestamp < job.deadline) THEN Revert(L, "Job expired")
    ELSE IF ~(value >= job.stakeRequired) THEN Revert(L, "Insufficient stake")
    ELSE Ok([L EXCEPT !.balance = @ + value,
                      !.jobs[jobId].worker = sender,
                      !.jobs[jobId].workerStake = value,
                      !.jobs[jobId].status = "Claimed",
                      !.jobsClaimed[sender] = Append(@, jobId)],
            <<>>, 0)

\* claimJob that still accepts a claim at the deadline itself.
claimJob_AtDeadline(L, sender, value, jobId, timestamp) ==
    LET job == JobAt(L, jobId) IN
    IF ~(job.id # 0) THEN Revert(L, "Job not found")
    ELSE IF ~(job.status = "Open") THEN Revert(L, "Job not open")
    ELSE IF ~(sender # job.client) THEN Revert(L, "Cannot claim own job")
    ELSE IF ~(timestamp <= job.deadline) THEN Revert(L, "Job expired")
    ELSE IF ~(value >= job.stakeRequired) THEN Revert(L, "Insufficient stake")
    ELSE Ok([L EXCEPT !.balance = @ + value,
                      !.jobs[jobId].worker = sender,
                      !.jobs[jobId].workerStake = value,
                      !.jobs[jobId].status = "Claimed",
                      !.jobsClaimed[sender] = Append(@, jobId)],
            <<>>, 0)

\* claimJob without its require on the stake.
claimJob_NoStakeCheck(L, sender, value, jobId, timestamp) ==
    LET job == JobAt(L, jobId) IN
    IF ~(job.id # 0) THEN Revert(L, "Job not found")
    ELSE IF ~(job.status = "Open") THEN Revert(L, "Job not open")
    ELSE IF ~(sender # job.client) THEN Revert(L, "Cannot claim own job")
    ELSE IF ~(timestamp < job.deadline) THEN Revert(L, "Job expired")
    ELSE Ok([L EXCEPT !.balance = @ + value,
                      !.jobs[jobId].worker = sender,
                      !.jobs[jobId].workerStake = value,
                      !.jobs[jobId].status = "Claimed",
                      !.jobsClaimed[sender] = Append(@, jobId)],
            <<>>, 0)

\* claimJob without its require on the status.
claimJob_NoStatusCheck(L, sender, value, jobId, timestamp) ==
    LET job == JobAt(L, jobId) IN
    IF ~(job.id # 0) THEN Revert(L, "Job not found")
    ELSE IF ~(sender # job.client) THEN Revert(L, "Cannot claim own job")
    ELSE IF ~(timestamp < job.deadline) THEN Revert(L, "Job expired")
    ELSE IF ~(value >= job.stakeRequired) THEN Revert(L, "Insufficient stake")
    ELSE Ok([L EXCEPT !.balance = @ + value,
                      !.jobs[jobId].worker = sender,
                      !.jobs[jobId].workerStake = value,
                      !.jobs[jobId].status = "Claimed",
                      !.jobsClaimed[sender] = Append(@, jobId)],
            <<>>, 0)

claimJob(L, sender, value, jobId, timestamp) ==
    LET job == JobAt(L, jobId) IN
    IF ~(job.id # 0) THEN Revert(L, "Job not found")
    ELSE IF ~(job.status = "Open") THEN Revert(L, "Job not open")
    ELSE IF ~(sender # job.client) THEN Revert(L, "Cannot claim own job")
    ELSE IF ~(timestamp < job.deadline) THEN Revert(L, "Job expired")
    ELSE IF ~(value >= job.stakeRequired) THEN Revert(L, "Insufficient stake")
    ELSE Ok([L EXCEPT !.balance = @ + value,
                      !.jobs[jobId].worker = sender,
                      !.jobs[jobId].workerStake = value,
                      !.jobs[jobId].status = "Claimed",
                      !.jobsClaimed[sender] = Append(@, jobId)],
            <<>>, 0)

\* submitResult that also takes a job already Submitted.
submitResult_Again(L, sender, jobId, resultHash, timestamp) ==
    LET job == JobAt(L, jobId) IN
    IF ~(job.status \in {"Claimed", "Submitted"})
    THEN Revert(L, "Job not claimed")
    ELSE IF ~(sender = job.worker) THEN Revert(L, "Not the worker")
    ELSE IF ~(Len(resultHash) > 0) THEN Revert(L, "Empty result")
    ELSE Ok([L EXCEPT !.jobs[jobId].resultHash = resultHash,
                      !.jobs[jobId].submittedAt = timestamp,
                      !.jobs[jobId].status = "Submitted"],
            <<>>, 0)

\* submitResult that requires the deadline not to have passed.
submitResult_BeforeDeadline(L, sender, jobId, resultHash, timestamp) ==
    LET job == JobAt(L, jobId) IN
    IF ~(job.status = "Claimed") THEN Revert(L, "Job not claimed")
    ELSE IF ~(sender = job.worker) THEN Revert(L, "Not the worker")
    ELSE IF ~(Len(resultHash) > 0) THEN Revert(L, "Empty result")
    ELSE IF ~(timestamp <= job.deadline) THEN Revert(L, "Job expired")
    ELSE Ok([L EXCEPT !.jobs[jobId].resultHash = resultHash,
                      !.jobs[jobId].submittedAt = timestamp,
                      !.jobs[jobId].status = "Submitted"],
            <<>>, 0)

submitResult(L, sender, jobId, resultHash, timestamp) ==
    LET job == JobAt(L, jobId) IN
    IF ~(job.status = "Claimed") THEN Revert(L, "Job not claimed")
    ELSE IF ~(sender = job.worker) THEN Revert(L, "Not the worker")
    ELSE IF ~(Len(resultHash) > 0) THEN Revert(L, "Empty result")
    ELSE Ok([L EXCEPT !.jobs[jobId].resultHash = resultHash,
                      !.jobs[jobId].submittedAt = timestamp,
                      !.jobs[jobId].status = "Submitted"],
            <<>>, 0)

\* approveResult without its require on the status.
approveResult_NoStatusCheck(L, sender, jobId, refuser) ==
    LET job == JobAt(L, jobId) IN
    IF ~(sender = job.client) THEN Revert(L, "Not the client")
    ELSE _completeJob(L, L, jobId, refuser)

approveResult(L, sender, jobId, refuser) ==
    LET job == JobAt(L, jobId) IN
    IF ~(job.status = "Submitted") THEN Revert(L, "No result to approve")
    ELSE IF ~(sender = job.client) THEN Revert(L, "Not the client")
    ELSE _completeJob(L, L, jobId, refuser)

\* autoApprove without its require on the delay.
autoApprove_NoDelay(L, sender, jobId, timestamp, refuser) ==
    LET job == JobAt(L, jobId) IN
    IF ~(job.status = "Submitted") THEN Revert(L, "No result to approve")
    ELSE _completeJob(L, L, jobId, refuser)

autoApprove(L, sender, jobId, timestamp, refuser) ==
    LET job == JobAt(L, jobId) IN
    IF ~(job.status = "Submitted") THEN Revert(L, "No result to approve")
    ELSE IF ~(timestamp >= job.submittedAt + AUTO_APPROVE_DELAY)
    THEN Revert(L, "Too early")
    ELSE _completeJob(L, L, jobId, refuser)

\* disputeResult without its require on the caller.
disputeResult_AnyCaller(L, sender, jobId) ==
    LET job == JobAt(L, jobId) IN
    IF ~(job.status = "Submitted") THEN Revert(L, "No result to dispute")
    ELSE Ok([L EXCEPT !.jobs[jobId].status = "Disputed"], <<>>, 0)

disputeResult(L, sender, jobId) ==
    LET job == JobAt(L, jobId) IN
    IF ~(job.status = "Submitted") THEN Revert(L, "No result to dispute")
    ELSE IF ~(sender = job.client) THEN Revert(L, "Not the client")
    ELSE Ok([L EXCEPT !.jobs[jobId].status = "Disputed"], <<>>, 0)

\* cancelJob that refunds the stake requirement on top of the payment.
cancelJob_RefundsMore(L, sender, jobId, refuser) ==
    LET job == JobAt(L, jobId) IN
    IF ~(job.status = "Open") THEN Revert(L, "Job already claimed")
    ELSE IF ~(sender = job.client) THEN Revert(L, "Not the client")
    ELSE LET L1 == [L EXCEPT !.jobs[jobId].status = "Cancelled"]
         IN  _sendPayment(L, Ok(L1, <<>>, 0), job.client,
                          job.payment + job.stakeRequired, refuser)

\* cancelJob that refunds without writing the status.
cancelJob_KeepsStatus(L, sender, jobId, refuser) ==
    LET job == JobAt(L, jobId) IN
    IF ~(job.status = "Open") THEN Revert(L, "Job already claimed")
    ELSE IF ~(sender = job.client) THEN Revert(L, "Not the client")
    ELSE _sendPayment(L, Ok(L, <<>>, 0), job.client, job.payment, refuser)

\* cancelJob without its require on the status.
cancelJob_NoStatusCheck(L, sender, jobId, refuser) ==
    LET job == JobAt(L, jobId) IN
    IF ~(sender = job.client) THEN Revert(L, "Not the client")
    ELSE LET L1 == [L EXCEPT !.jobs[jobId].status = "Cancelled"]
         IN  _sendPayment(L, Ok(L1, <<>>, 0), job.client, job.payment, refuser)

cancelJob(L, sender, jobId, refuser) ==
    LET job == JobAt(L, jobId) IN
    IF ~(job.status = "Open") THEN Revert(L, "Job already claimed")
    ELSE IF ~(sender = job.client) THEN Revert(L, "Not the client")
    ELSE LET L1 == [L EXCEPT !.jobs[jobId].status = "Cancelled"]
         IN  _sendPayment(L, Ok(L1, <<>>, 0), job.client, job.payment, refuser)

\* claimExpired with a require that lets an expired job pass again.
claimExpired_Repeatable(L, sender, jobId, timestamp, refuser) ==
    LET job == JobAt(L, jobId) IN
    IF ~(job.status \in {"Claimed", "Expired"}) THEN Revert(L, "Job not claimed")
    ELSE IF ~(timestamp > job.deadline) THEN Revert(L, "Deadline not passed")
    ELSE LET L1 == [L EXCEPT !.jobs[jobId].status = "Expired"]
             L2 == [L1 EXCEPT !.agentStats[job.worker].jobsFailed = @ + 1]
             L3 == _updateReputation(L2, job.worker, FALSE)
         IN  _sendPayment(L, Ok(L3, <<>>, 0), job.client,
                          job.payment + job.workerStake, refuser)

claimExpired(L, sender, jobId, timestamp, refuser) ==
    LET job == JobAt(L, jobId) IN
    IF ~(job.status = "Claimed") THEN Revert(L, "Job not claimed")
    ELSE IF ~(timestamp > job.deadline) THEN Revert(L, "Deadline not passed")
    ELSE LET L1 == [L EXCEPT !.jobs[jobId].status = "Expired"]
             L2 == [L1 EXCEPT !.agentStats[job.worker].jobsFailed = @ + 1]
             L3 == _updateReputation(L2, job.worker, FALSE)
         IN  _sendPayment(L, Ok(L3, <<>>, 0), job.client,
                          job.payment + job.workerStake, refuser)

setFeeRecipient(L, sender, newRecipient) ==
    IF ~(sender = L.owner) THEN Revert(L, "Not owner")
    ELSE Ok([L EXCEPT !.feeRecipient = newRecipient], <<>>, 0)

\* resolveDispute that refunds a lost dispute without penalising the worker.
resolveDispute_NoPenalty(L, sender, jobId, workerWins, refuser) ==
    LET job == JobAt(L, jobId) IN
    IF ~(sender = L.owner) THEN Revert(L, "Not owner")
    ELSE IF ~(job.status = "Disputed") THEN Revert(L, "Not disputed")
    ELSE IF workerWins THEN _completeJob(L, L, jobId, refuser)
    ELSE LET L1 == [L EXCEPT !.jobs[jobId].status = "Cancelled"]
         IN  _sendPayment(L, Ok(L1, <<>>, 0), job.client,
                          job.payment + job.workerStake, refuser)

\* resolveDispute that refunds only the payment of a lost dispute and keeps
\* the worker's stake in the contract.
resolveDispute_KeepsStake(L, sender, jobId, workerWins, refuser) ==
    LET job == JobAt(L, jobId) IN
    IF ~(sender = L.owner) THEN Revert(L, "Not owner")
    ELSE IF ~(job.status = "Disputed") THEN Revert(L, "Not disputed")
    ELSE IF workerWins THEN _completeJob(L, L, jobId, refuser)
    ELSE LET L1 == [L EXCEPT !.jobs[jobId].status = "Cancelled"]
             L2 == [L1 EXCEPT !.agentStats[job.worker].jobsFailed = @ + 1]
             L3 == _updateReputation(L2, job.worker, FALSE)
         IN  _sendPayment(L, Ok(L3, <<>>, 0), job.client, job.payment, refuser)

resolveDispute(L, sender, jobId, workerWins, refuser) ==
    LET job == JobAt(L, jobId) IN
    IF ~(sender = L.owner) THEN Revert(L, "Not owner")
    ELSE IF ~(job.status = "Disputed") THEN Revert(L, "Not disputed")
    ELSE IF workerWins THEN _completeJob(L, L, jobId, refuser)
    ELSE LET L1 == [L EXCEPT !.jobs[jobId].status = "Cancelled"]
             L2 == [L1 EXCEPT !.agentStats[job.worker].jobsFailed = @ + 1]
             L3 == _updateReputation(L2, job.worker, FALSE)
         IN  _sendPayment(L, Ok(L3, <<>>, 0), job.client,
                          job.payment + job.workerStake, refuser)

\* isJobOpen that looks at the status only.
isJobOpen_StatusOnly(L, jobId, timestamp) ==
    JobAt(L, jobId).status = "Open"

isJobOpen(L, jobId, timestamp) ==
    JobAt(L, jobId).status = "Open" /\ timestamp < JobAt(L, jobId).deadline

\* -------------------------------------------------- the contract service

\* ContractService.submitResult: a result longer than maxLen characters is cut
\* to its first maxLen characters and a note is appended; the outcome is what
\* the contract is called with.
maxLen == 10000
TruncationNote == "\n\n[Result truncated for on-chain storage]"
Truncated(resultHash) ==
    IF Len(resultHash) > maxLen
    THEN SubSeq(resultHash, 1, maxLen) \o TruncationNote
    ELSE resultHash

ServiceSubmitResult(L, sender, jobId, resultHash, timestamp) ==
    submitResult(L, sender, jobId, Truncated(resultHash), timestamp)

\* ------------------------------------------------------------ transactions

\* A call of an external function: who calls, with how much ether, on which
\* job, with which argument, and which account refuses ether while it runs.
Call(op, sender, value, jobId, arg, refuser) ==
    [op |-> op, sender |-> sender, value |-> value, jobId |-> jobId,
     arg |-> arg, refuser |-> refuser]

\* The outcome of call c on storage L at block time t.
Exec(L, c, t) ==
    CASE c.op = "postJob" -> postJob(L, c.sender, c.value, c.arg, t)
      [] c.op = "claimJob" -> claimJob(L, c.sender, c.value, c.jobId, t)
      [] c.op = "submitResult" -> submitResult(L, c.sender, c.jobId, c.arg, t)
      [] c.op = "approveResult" -> approveResult(L, c.sender, c.jobId, c.refuser)
      [] c.op = "autoApprove" -> autoApprove(L, c.sender, c.jobId, t, c.refuser)
      [] c.op = "disputeResult" -> disputeResult(L, c.sender, c.jobId)
      [] c.op = "cancelJob" -> cancelJob(L, c.sender, c.jobId, c.refuser)
      [] c.op = "claimExpired" -> claimExpired(L, c.sender, c.jobId, t, c.refuser)
      [] c.op = "setFeeRecipient" -> setFeeRecipient(L, c.sender, c.arg)
      [] c.op = "resolveDispute" ->
            resolveDispute(L, c.sender, c.jobId, c.arg, c.refuser)

\* The job a call is about: postJob's is the one it creates.
JobOf(L, c) == IF c.op = "postJob" THEN L.jobCounter + 1 ELSE c.jobId

\* The sum of the amounts of a list of transfers.
RECURSIVE Total(_)
Total(sent) == IF sent = <<>> THEN 0 ELSE Head(sent).amount + Total(Tail(sent))

\* The transaction of call c, when it does not revert: the storage its
\* outcome holds becomes the contract's storage; the status its job is left in
\* and the ether sent are recorded.  (A call that reverts changes nothing: it is no step.)
Commit(c, o) ==
    /\ jobCounter' = o.L.jobCounter
    /\ totalPayouts' = o.L.totalPayouts
    /\ owner' = o.L.owner
    /\ feeRecipient' = o.L.feeRecipient
    /\ jobs' = o.L.jobs
    /\ agentStats' = o.L.agentStats
    /\ jobsPosted' = o.L.jobsPosted
    /\ jobsClaimed' = o.L.jobsClaimed
    /\ balance' = o.L.balance
    /\ history' = [j \in DOMAIN jobs |->
                       IF o.L.jobs[j].id # 0 /\
                          (jobs[j].id = 0 \/ o.L.jobs[j].status # jobs[j].status)
                       THEN Append(history[j], o.L.jobs[j].status)
                       ELSE history[j]]
    /\ paidOut' = IF JobOf(Ledger, c) \in DOMAIN jobs
                   THEN [paidOut EXCEPT ![JobOf(Ledger, c)] = @ + Total(o.sent)]
                   ELSE paidOut

Transact(c) ==
    LET o == Exec(Ledger, c, now) IN
    /\ o.err = ""
    /\ Commit(c, o)
    /\ UNCHANGED now
    /\ UNCHANGED <<agentVars, serviceVars>>

\* The stake a worker offers in the behaviours: the stake required for a
\* one-ether job (as ContractService.claimJob sends it), one unit more for
\* the others.
StakeOffered(jobId) ==
    LET job == JobAt(Ledger, jobId)
    IN  IF job.payment = Ether THEN job.stakeRequired
        ELSE job.stakeRequired + 1

\* ----------------------------------------------------------------- actions

Init ==
    /\ jobCounter = 0
    /\ totalPayouts = 0
    /\ owner = Deployer
    /\ feeRecipient = Deployer
    /\ jobs = [i \in JobIds |-> ZeroJob]
    /\ agentStats = [a \in Addr |-> ZeroStats]
    /\ jobsPosted = [a \in Addr |-> <<>>]
    /\ jobsClaimed = [a \in Addr |-> <<>>]
    /\ balance = 0
    /\ now = 0
    /\ history = [i \in JobIds |-> <<>>]
    /\ paidOut = [i \in JobIds |-> 0]
    /\ NewAgent

\* In the actions below the ether sent is accepted (no refuser): a transfer
\* that is refused reverts the transaction, which is then no step.

PostJob ==
    /\ jobCounter < MaxJobs
    /\ \E s \in Clients, a \in PostArgs :
          Transact(Call("postJob", s, a[1], 0, a[2], NoAddr))

ClaimJob ==
    \E j \in 1..jobCounter : \E s \in Workers :
        Transact(Call("claimJob", s, StakeOffered(j), j, 0, NoAddr))

SubmitResult ==
    \E j \in 1..jobCounter : \E s \in Addr, r \in Results :
        Transact(Call("submitResult", s, 0, j, r, NoAddr))

ApproveResult ==
    \E j \in 1..jobCounter : \E s \in Addr :
        Transact(Call("approveResult", s, 0, j, 0, NoAddr))

AutoApprove ==
    \E j \in 1..jobCounter : \E s \in Addr :
        Transact(Call("autoApprove", s, 0, j, 0, NoAddr))

DisputeResult ==
    \E j \in 1..jobCounter : \E s \in Addr :
        Transact(Call("disputeResult", s, 0, j, 0, NoAddr))

CancelJob ==
    \E j \in 1..jobCounter : \E s \in Addr :
        Transact(Call("cancelJob", s, 0, j, 0, NoAddr))

ClaimExpired ==
    \E j \in 1..jobCounter : \E s \in Addr :
        Transact(Call("claimExpired", s, 0, j, 0, NoAddr))

SetFeeRecipient ==
    \E r \in FeeRecipients \ {feeRecipient} : \E s \in Addr :
        Transact(Call("setFeeRecipient", s, 0, 0, r, NoAddr))

ResolveDispute ==
    \E j \in 1..jobCounter : \E s \in Addr, w \in BOOLEAN :
        Transact(Call("resolveDispute", s, 0, j, w, NoAddr))

\* The instants from which a guard of the contract lets a transition pass
\* that it refused before: the second after a claimed job's deadline, and the
\* end of a submitted job's auto-approve delay.
Instants ==
    {jobs[j].deadline + 1 :
        j \in {i \in 1..jobCounter : jobs[i].status = "Claimed"}}
    \cup {jobs[j].submittedAt + AUTO_APPROVE_DELAY :
            j \in {i \in 1..jobCounter : jobs[i].status = "Submitted"}}

\* block.timestamp grows between transactions.
AdvanceTime ==
    /\ \E t \in Instants : t > now /\ now' = t
    /\ UNCHANGED <<jobCounter, totalPayouts, owner, feeRecipient, jobs,
                   agentStats, jobsPosted, jobsClaimed, balance, history,
                   paidOut>>
    /\ UNCHANGED <<agentVars, serviceVars>>

Next ==
    \/ PostJob
    \/ ClaimJob
    \/ SubmitResult
    \/ ApproveResult
    \/ AutoApprove
    \/ DisputeResult
    \/ CancelJob
    \/ ClaimExpired
    \/ SetFeeRecipient
    \/ ResolveDispute
    \/ AdvanceTime

Spec == Init /\ [][Next]_vars

\* ------------------------------------------------- the calls a state is tried with

\* The errors of the specification's taxonomy, by the require that fails.
ErrorKind(msg) ==
    CASE msg \in {"Payment too low", "Deadline 1-168 hours", "Empty result"}
            -> "ValidationError"
      [] msg \in {"Job not found", "Job not open", "Job not claimed",
                  "No result to approve", "No result to dispute",
                  "Job already claimed", "Not disputed"} -> "StateError"
      [] msg \in {"Cannot claim own job", "Not the worker", "Not the client",
                  "Not owner"} -> "AuthorizationError"
      [] msg \in {"Job expired", "Too early", "Deadline not passed"}
            -> "DeadlineError"
      [] msg = "Insufficient stake" -> "InsufficientFundsError"
      [] msg = "Payment failed" -> "TransferError"
      [] OTHER -> "none"

\* Job ids a call may name: every slot, and one that is never posted.
AnyJobIds == 1..(MaxJobs + 1)

\* Block times at which a call on job j may arrive: now, and from now on
\* both sides of the job's deadline and of its auto-approve delay.
TimesFor(j) ==
    LET job == JobAt(Ledger, j)
    IN  {now} \cup
        {t \in {job.deadline - 1, job.deadline, job.deadline + 1,
                job.submittedAt + AUTO_APPROVE_DELAY - 1,
                job.submittedAt + AUTO_APPROVE_DELAY} : t > now}

\* The stakes offered to job j: none, one unit short, exact, one unit over.
AllStakes(j) ==
    LET req == JobAt(Ledger, j).stakeRequired
    IN  {0, req, req + 1} \cup (IF req > 0 THEN {req - 1} ELSE {})

PostCalls ==
    {Call("postJob", s, v, 0, h, NoAddr) :
        s \in Addr, v \in AllPayments, h \in AllDeadlineHours}
ClaimCalls(j) ==
    {Call("claimJob", s, v, j, 0, NoAddr) : s \in Addr, v \in AllStakes(j)}
SubmitCalls(j) ==
    {Call("submitResult", s, 0, j, r, NoAddr) : s \in Addr, r \in AllResults}
PayingCalls(j, refusers) ==
    {Call(op, s, 0, j, 0, x) :
        op \in {"approveResult", "autoApprove", "cancelJob", "claimExpired"},
        s \in Addr, x \in refusers}
    \cup {Call("resolveDispute", s, 0, j, w, x) :
            s \in Addr, w \in BOOLEAN, x \in refusers}
DisputeCalls(j) == {Call("disputeResult", s, 0, j, 0, NoAddr) : s \in Addr}
FeeCalls == {Call("setFeeRecipient", s, 0, 0, r, NoAddr) : s \in Addr, r \in Addr}

\* Every call on job j, and every call that names no job.
JobCalls(j, refusers) ==
    ClaimCalls(j) \cup SubmitCalls(j) \cup PayingCalls(j, refusers)
    \cup DisputeCalls(j)
FreeCalls == FeeCalls \cup (IF jobCounter < MaxJobs THEN PostCalls ELSE {})

Terminal == {"Completed", "Cancelled", "Expired"}

\* The number of times job j stands in the lists of claimed jobs.
ClaimCount(j) ==
    Cardinality({p \in Addr \X (1..MaxJobs + 1) :
                    p[2] <= Len(jobsClaimed[p[1]]) /\ jobsClaimed[p[1]][p[2]] = j})

\* --------------------------------------------------------------- the claims

\* C1: at most one claim of a job ever succeeds: a job is in the lists of
\* claimed jobs at most once, and once it has a worker every claim of it, by
\* any account, with any stake, at any later block time, reverts with
\* "Job not open" (a StateError).
C1_OneClaimPerJob ==
    \A j \in 1..jobCounter :
        /\ ClaimCount(j) <= 1
        /\ (jobs[j].worker # NoAddr) = (ClaimCount(j) = 1)
        /\ jobs[j].worker # NoAddr =>
              \A c \in ClaimCalls(j), t \in TimesFor(j) :
                  LET o == Exec(Ledger, c, t)
                  IN  /\ o.err = "Job not open"
                      /\ ErrorKind(o.err) = "StateError"
                      /\ o.L = Ledger

\* A job claimed by one account, still before its deadline, that a second
\* account claims with enough stake.
C1_Witness ==
    \E j \in 1..jobCounter :
        /\ jobs[j].status = "Claimed"
        /\ jobs[j].worker = "bob"
        /\ now < jobs[j].deadline
        /\ Exec(Ledger, Call("claimJob", "owner", jobs[j].stakeRequired, j, 0,
                             NoAddr), now).err = "Job not open"


\* C2: a ledger call that fails leaves the ledger as it was: for every call
\* (post, claim, submit, approve, autoApprove, dispute, cancel, expire,
\* resolveDispute, with any caller, any refusing recipient, at any block time)
\* that reverts, the storage and the balance after it are those before it and
\* no ether was sent.  In particular a claim that offers less than the stake
\* required fails and changes nothing, with "Insufficient stake" (an
\* InsufficientFundsError) when the job is open, the claimant is not the
\* poster and the deadline has not come.
C2_FailedCallChangesNothing ==
    /\ \A j \in AnyJobIds :
          \A t \in TimesFor(j), c \in JobCalls(j, Refusers) :
              LET o == Exec(Ledger, c, t)
              IN  o.err # "" => o.L = Ledger /\ o.sent = <<>>
    /\ \A c \in FreeCalls :
          LET o == Exec(Ledger, c, now)
          IN  o.err # "" => o.L = Ledger /\ o.sent = <<>>
    /\ \A j \in 1..jobCounter :
          \A t \in TimesFor(j), c \in ClaimCalls(j) :
              LET o == Exec(Ledger, c, t)
              IN  c.value < jobs[j].stakeRequired =>
                    /\ o.err # ""
                    /\ o.L = Ledger
                    /\ (jobs[j].status = "Open" /\ c.sender # jobs[j].client
                        /\ t < jobs[j].deadline) =>
                          /\ o.err = "Insufficient stake"
                          /\ ErrorKind(o.err) = "InsufficientFundsError"

\* An open job before its deadline, whose claim by an account other than the
\* poster with one unit less than the stake required reverts, while a second
\* job has already been claimed with enough stake.
C2_Witness ==
    \E j \in 1..jobCounter, k \in 1..jobCounter :
        /\ jobs[j].status = "Open"
        /\ now < jobs[j].deadline
        /\ jobs[k].status = "Claimed"
        /\ Exec(Ledger, Call("claimJob", "bob", jobs[j].stakeRequired - 1, j,
                             0, NoAddr), now).err = "Insufficient stake"

\* The accounts a list of transfers pays.
Recipients(sent) == {sent[i].to : i \in 1..Len(sent)}

\* Call c with account x refusing ether.
Refusing(c, x) == [c EXCEPT !.refuser = x]

\* C3: dual commit.  For cancel, expire, resolveDispute, approve and
\* autoApprove: when the call would go through and one of the accounts it pays
\* (the poster, the worker or the fee recipient) refuses the ether, the call
\* reverts with "Payment failed" and status, statistics, reputation,
\* totalPayouts and balance are as before; when it goes through, the job is
\* left in Completed, Cancelled or Expired and its payment and stake have all
\* been sent.  And in every reachable state a job is in Completed, Cancelled
\* or Expired exactly when its payment and stake have been sent out.
C3_DualCommit ==
    /\ \A j \in 1..jobCounter :
          \A t \in TimesFor(j), c \in PayingCalls(j, {NoAddr}) :
              LET o == Exec(Ledger, c, t)
              IN  o.err = "" =>
                    /\ o.L.jobs[j].status \in Terminal
                    /\ o.sent # <<>>
                    /\ Total(o.sent) = jobs[j].payment + jobs[j].workerStake
                    /\ o.L.balance = balance - Total(o.sent)
                    /\ \A x \in Addr :
                          LET r == Exec(Ledger, Refusing(c, x), t)
                          IN  IF x \in Recipients(o.sent)
                              THEN /\ r.err = "Payment failed"
                                   /\ ErrorKind(r.err) = "TransferError"
                                   /\ r.L = Ledger
                                   /\ r.sent = <<>>
                              ELSE r = o
    /\ \A j \in 1..jobCounter :
          IF jobs[j].status \in Terminal
          THEN paidOut[j] = jobs[j].payment + jobs[j].workerStake
          ELSE paidOut[j] = 0

\* A submitted job whose approval reverts when the worker refuses the payout,
\* beside an expired job whose payment and stake have gone to the poster.
C3_Witness ==
    \E j \in 1..jobCounter, k \in 1..jobCounter :
        /\ jobs[j].status = "Submitted"
        /\ Exec(Ledger, Call("approveResult", jobs[j].client, 0, j, 0,
                             jobs[j].worker), now).err = "Payment failed"
        /\ jobs[k].status = "Expired"
        /\ paidOut[k] = jobs[k].payment + jobs[k].workerStake
        /\ paidOut[k] > jobs[k].payment

\* C4: the payout of an approval.  When approve goes through for a job with
\* payment P and worker stake S, exactly two transfers are made: fee to the fee
\* recipient, then P - fee + S to the worker, where fee is P * 25 / 1000
\* rounded down; the worker's reputation rises by 100, capped at 1000.  For
\* P = 1 ether and S = 0.1 ether the worker is sent 1.075 ether and the fee
\* recipient 0.025 ether.
C4_ApprovePayout ==
    \A j \in 1..jobCounter, s \in Addr :
        LET o == Exec(Ledger, Call("approveResult", s, 0, j, 0, NoAddr), now)
            P == jobs[j].payment
            S == jobs[j].workerStake
            w == jobs[j].worker
            rep == agentStats[w].reputation
        IN  o.err = "" =>
              /\ history[j] = <<"Open", "Claimed", "Submitted">>
              /\ Len(o.sent) = 2
              /\ o.sent[1].to = feeRecipient
              /\ o.sent[1].amount * 1000 <= P * 25
              /\ (o.sent[1].amount + 1) * 1000 > P * 25
              /\ o.sent[2].to = w
              /\ o.sent[2].amount = P - o.sent[1].amount + S
              /\ o.L.agentStats[w].reputation =
                    (IF rep + 100 > 1000 THEN 1000 ELSE rep + 100)
              /\ (P = 100000 /\ S = 10000) =>
                    o.sent[1].amount = 2500 /\ o.sent[2].amount = 107500

\* A one-ether job that went post, claim with 0.1 ether, submit, approve (the
\* auto-approve delay has not run out): 1.075 ether were paid out to the
\* worker and the escrow of 1.1 ether has left the ledger.
C4_Witness ==
    \E j \in 1..jobCounter :
        /\ history[j] = <<"Open", "Claimed", "Submitted", "Completed">>
        /\ now < jobs[j].submittedAt + AUTO_APPROVE_DELAY
        /\ jobs[j].payment = 100000
        /\ jobs[j].workerStake = 10000
        /\ paidOut[j] = 110000
        /\ totalPayouts = 107500
        /\ agentStats[jobs[j].worker].reputation = 100

\* The number of times status st stands in the history of job j.
Entered(j, st) == Cardinality({i \in 1..Len(history[j]) : history[j][i] = st})

\* The jobs of worker a that failed: expired, or cancelled by the arbiter.
FailedJobs(a) ==
    {j \in 1..jobCounter :
        jobs[j].worker = a /\ jobs[j].status \in {"Expired", "Cancelled"}}

\* C5: expire.  A call of claimExpired, by any account, on a job that is not
\* Claimed reverts with "Job not claimed" (StateError); on a Claimed job at a
\* block time not after the deadline it reverts with "Deadline not passed"
\* (DeadlineError); on a Claimed job after its deadline it sends payment +
\* workerStake to the poster in one transfer, sets the status Expired, adds 1
\* to the worker's jobsFailed, takes 100 off the worker's reputation (not
\* below 0) and changes nothing else.  Over a whole behaviour this happens
\* once per job: a job enters Expired at most once, an expired job has
\* been refunded payment + workerStake and no more, and a worker's jobsFailed
\* counts each of its failed jobs once.
C5_ExpireOnce ==
    /\ \A j \in AnyJobIds :
          \A t \in TimesFor(j), s \in Addr :
              LET job == JobAt(Ledger, j)
                  o == Exec(Ledger, Call("claimExpired", s, 0, j, 0, NoAddr), t)
                  w == job.worker
                  rep == agentStats[w].reputation
              IN  IF job.status # "Claimed"
                  THEN /\ o.err = "Job not claimed"
                       /\ ErrorKind(o.err) = "StateError"
                       /\ o.L = Ledger /\ o.sent = <<>>
                  ELSE IF t <= job.deadline
                  THEN /\ o.err = "Deadline not passed"
                       /\ ErrorKind(o.err) = "DeadlineError"
                       /\ o.L = Ledger /\ o.sent = <<>>
                  ELSE /\ o.err = ""
                       /\ o.sent = <<[to |-> job.client,
                                      amount |-> job.payment + job.workerStake]>>
                       /\ o.L = [Ledger EXCEPT
                                   !.jobs[j].status = "Expired",
                                   !.agentStats[w].jobsFailed = @ + 1,
                                   !.agentStats[w].reputation =
                                       (IF rep - 100 < 0 THEN 0 ELSE rep - 100),
                                   !.balance = @ - (job.payment + job.workerStake)]
    /\ \A j \in 1..jobCounter :
          /\ Entered(j, "Expired") <= 1
          /\ jobs[j].status = "Expired" =>
                /\ Entered(j, "Expired") = 1
                /\ paidOut[j] = jobs[j].payment + jobs[j].workerStake
    /\ \A a \in Addr : agentStats[a].jobsFailed = Cardinality(FailedJobs(a))

\* A worker that completed one job and then let another expire: the expired
\* job is refunded, jobsFailed is 1, the reputation earned is lost again, and
\* a further expire of the job reverts.
C5_Witness ==
    \E j \in 1..jobCounter, k \in 1..jobCounter :
        LET w == jobs[j].worker IN
        /\ jobs[j].status = "Expired"
        /\ now > jobs[j].deadline
        /\ paidOut[j] = jobs[j].payment + jobs[j].workerStake
        /\ jobs[k].status = "Completed" /\ jobs[k].worker = w
        /\ agentStats[w].jobsFailed = 1
        /\ agentStats[w].jobsCompleted = 1
        /\ agentStats[w].reputation = 0
        /\ Exec(Ledger, Call("claimExpired", "owner", 0, j, 0, NoAddr),
                now).err = "Job not claimed"

\* The status changes of section 4.1.
AllowedEdges ==
    {<<"Open", "Claimed">>, <<"Open", "Cancelled">>,
     <<"Claimed", "Submitted">>, <<"Claimed", "Expired">>,
     <<"Submitted", "Completed">>, <<"Submitted", "Disputed">>,
     <<"Disputed", "Completed">>, <<"Disputed", "Cancelled">>}

\* C6: a job's status changes only along Open->Claimed, Open->Cancelled,
\* Claimed->Submitted, Claimed->Expired, Submitted->Completed,
\* Submitted->Disputed, Disputed->Completed, Disputed->Cancelled.  In every
\* reachable state the history of a job starts with Open, ends with its
\* status, steps along these changes only and holds no status twice; and no
\* call, by any account at any block time, changes the status of a job
\* otherwise, changes a job in Completed, Cancelled or Expired, changes a
\* Disputed job unless it is resolveDispute, or changes a job it does not
\* name.
C6_StatusMonotonic ==
    /\ \A j \in 1..jobCounter :
          /\ Len(history[j]) >= 1
          /\ history[j][1] = "Open"
          /\ history[j][Len(history[j])] = jobs[j].status
          /\ \A i \in 1..(Len(history[j]) - 1) :
                <<history[j][i], history[j][i + 1]>> \in AllowedEdges
          /\ \A st \in JobStatus : Entered(j, st) <= 1
    /\ \A k \in AnyJobIds :
          \A t \in TimesFor(k), c \in JobCalls(k, {NoAddr}) \cup FreeCalls :
              LET o == Exec(Ledger, c, t) IN
              \A j \in 1..jobCounter :
                  LET old == jobs[j].status
                      new == o.L.jobs[j].status
                  IN  /\ new # old => <<old, new>> \in AllowedEdges
                      /\ old \in Terminal => o.L.jobs[j] = jobs[j]
                      /\ (old = "Disputed" /\ new # old) =>
                            c.op = "resolveDispute"
                      /\ (c.op \in {"postJob", "setFeeRecipient"} \/ c.jobId # j)
                            => o.L.jobs[j] = jobs[j]

\* One job that went through a dispute the worker won, and one that expired.
C6_Witness ==
    \E j \in 1..jobCounter, k \in 1..jobCounter :
        /\ history[j] = <<"Open", "Claimed", "Submitted", "Disputed", "Completed">>
        /\ history[k] = <<"Open", "Claimed", "Expired">>

\* The ether a call brings in when it goes through: msg.value of the two
\* payable functions.
Deposit(c, o) ==
    IF o.err = "" /\ c.op \in {"postJob", "claimJob"} THEN c.value ELSE 0

\* C7: funds leave the ledger only in a step that moves a job into Completed,
\* Cancelled or Expired.  For every call, by any account, with any refusing
\* recipient, at any block time: the balance falls by exactly the ether sent;
\* post, claim, submit, dispute, setFeeRecipient and every call that reverts
\* send nothing; a call that sends ether names an existing job that was not
\* terminal and is terminal afterwards, pays only that job's poster, its
\* worker or the fee recipient, pays that job's payment + workerStake in
\* total, and leaves every other job as it was.
C7_FundsLeaveOnTerminal ==
    \A k \in AnyJobIds :
        \A t \in TimesFor(k), c \in JobCalls(k, Refusers) \cup FreeCalls :
            LET o == Exec(Ledger, c, t)
                job == JobAt(Ledger, k)
            IN  /\ o.L.balance = balance + Deposit(c, o) - Total(o.sent)
                /\ o.err # "" => o.sent = <<>>
                /\ c.op \in {"postJob", "claimJob", "submitResult",
                             "disputeResult", "setFeeRecipient"}
                      => o.sent = <<>>
                /\ o.sent # <<>> =>
                      /\ k \in 1..jobCounter
                      /\ c.jobId = k
                      /\ job.status \notin Terminal
                      /\ o.L.jobs[k].status \in Terminal
                      /\ Recipients(o.sent)
                            \subseteq {job.client, job.worker, feeRecipient}
                      /\ Total(o.sent) = job.payment + job.workerStake
                      /\ \A j \in JobIds \ {k} : o.L.jobs[j] = jobs[j]

\* A job cancelled by its poster and refunded, while a second job is claimed
\* and the ledger still holds exactly its payment and stake.
C7_Witness ==
    \E j \in 1..jobCounter, k \in 1..jobCounter :
        /\ history[j] = <<"Open", "Cancelled">>
        /\ paidOut[j] = jobs[j].payment
        /\ jobs[k].status = "Claimed"
        /\ paidOut[k] = 0
        /\ balance = jobs[k].payment + jobs[k].workerStake

\* C8: postJob goes through exactly when msg.value >= MIN_PAYMENT and
\* 1 <= _deadlineHours <= 168, and otherwise fails with a ValidationError.
\* When it goes through it returns an id that no job had, one greater than
\* every id given before; the job under that id is Open, has the sender as
\* poster, no worker, no stake and no result, stakeRequired equal to the
\* floor of payment * 10 / 100, and deadline = createdAt + _deadlineHours
\* hours with createdAt the block time; the poster's jobsPosted grows by 1
\* and totalSpent by the payment; every other job is as it was.
C8_PostJob ==
    jobCounter < MaxJobs =>
    \A c \in PostCalls, t \in {now, now + 1} :
        LET o == Exec(Ledger, c, t)
            valid == /\ c.value >= MIN_PAYMENT
                     /\ c.arg >= 1
                     /\ c.arg <= 168
            id == o.ret
            job == o.L.jobs[id]
        IN  /\ o.err = "" <=> valid
            /\ ~valid => ErrorKind(o.err) = "ValidationError"
            /\ valid =>
                  /\ id = jobCounter + 1
                  /\ jobs[id] = ZeroJob
                  /\ \A j \in JobIds : jobs[j].id # 0 => jobs[j].id < id
                  /\ id = 1 \/ jobs[id - 1].id = id - 1
                  /\ o.L.jobCounter = id
                  /\ job.id = id
                  /\ job.status = "Open"
                  /\ job.client = c.sender
                  /\ job.worker = NoAddr
                  /\ job.workerStake = 0
                  /\ job.resultHash = ""
                  /\ job.payment = c.value
                  /\ job.stakeRequired * 100 <= c.value * 10
                  /\ c.value * 10 < (job.stakeRequired + 1) * 100
                  /\ job.createdAt = t
                  /\ job.deadline = t + c.arg * 3600
                  /\ o.L.agentStats[c.sender].jobsPosted
                        = agentStats[c.sender].jobsPosted + 1
                  /\ o.L.agentStats[c.sender].totalSpent
                        = agentStats[c.sender].totalSpent + c.value
                  /\ \A j \in JobIds \ {id} : o.L.jobs[j] = jobs[j]

\* A second job posted for 1019 units and one hour: its stake is 101, the
\* floor of 101.9, and its poster has posted two jobs.
C8_Witness ==
    /\ jobCounter = 2
    /\ jobs[2].id = 2
    /\ jobs[2].status = "Open"
    /\ jobs[2].worker = NoAddr
    /\ jobs[2].payment = 1019
    /\ jobs[2].stakeRequired = 101
    /\ jobs[2].deadline = jobs[2].createdAt + 3600
    /\ agentStats[jobs[2].client].jobsPosted = 2
    /\ agentStats[jobs[2].client].totalSpent = jobs[1].payment + 1019

\* C9: claimJob goes through exactly when the job exists and is Open, the
\* sender is not its poster, the block time is before its deadline and
\* msg.value >= stakeRequired.  It fails with a StateError when the job does
\* not exist or is not Open, else with an AuthorizationError when the sender
\* is the poster, else with a DeadlineError when the deadline is reached,
\* else with an InsufficientFundsError when the stake is short.  When it goes
\* through, the job gets worker = sender, workerStake = msg.value and status
\* Claimed and is otherwise as it was; no other job and no agent statistic
\* changes.
C9_ClaimJob ==
    \A j \in AnyJobIds :
        \A t \in TimesFor(j), c \in ClaimCalls(j) :
            LET o == Exec(Ledger, c, t)
                job == JobAt(Ledger, j)
                isOpen == job.id # 0 /\ job.status = "Open"
                notPoster == c.sender # job.client
                inTime == t < job.deadline
                staked == c.value >= job.stakeRequired
            IN  /\ o.err = "" <=> (isOpen /\ notPoster /\ inTime /\ staked)
                /\ ~isOpen => ErrorKind(o.err) = "StateError"
                /\ isOpen /\ ~notPoster
                      => ErrorKind(o.err) = "AuthorizationError"
                /\ isOpen /\ notPoster /\ ~inTime
                      => ErrorKind(o.err) = "DeadlineError"
                /\ isOpen /\ notPoster /\ inTime /\ ~staked
                      => ErrorKind(o.err) = "InsufficientFundsError"
                /\ o.err = "" =>
                      /\ j \in 1..jobCounter
                      /\ o.L.jobs[j] = [job EXCEPT !.worker = c.sender,
                                                   !.workerStake = c.value,
                                                   !.status = "Claimed"]
                      /\ \A k \in JobIds \ {j} : o.L.jobs[k] = jobs[k]
                      /\ o.L.agentStats = agentStats
                      /\ o.L.jobCounter = jobCounter

\* A job claimed with one unit more than the stake it requires, by an account
\* whose statistics are untouched, while the other job is still Open.
C9_Witness ==
    \E j \in 1..jobCounter, k \in 1..jobCounter :
        /\ history[j] = <<"Open", "Claimed">>
        /\ jobs[j].worker = "bob"
        /\ jobs[j].workerStake = jobs[j].stakeRequired + 1
        /\ agentStats["bob"] = ZeroStats
        /\ jobs[k].status = "Open"
        /\ jobs[k].worker = NoAddr

\* C10: submitResult fails with a StateError unless the job is Claimed, else
\* with an AuthorizationError unless the sender is the job's worker, else
\* with a ValidationError when the result is empty, and goes through
\* otherwise.  When it goes through, the job gets the result, submittedAt =
\* the block time and status Submitted and is otherwise as it was; no ether
\* is sent and the balance stays.  A job's result is written at most once:
\* a job has a result exactly when it has been Submitted, and no call of any
\* function changes a result except a submitResult that goes through on a
\* Claimed job that has none.
C10_SubmitResult ==
    /\ \A j \in JobIds :
          /\ jobs[j].resultHash # "" <=> Entered(j, "Submitted") = 1
          /\ jobs[j].status \in {"Open", "Claimed"} => jobs[j].resultHash = ""
    /\ \A j \in AnyJobIds :
          \A t \in TimesFor(j) :
             /\ \A c \in SubmitCalls(j) :
                   LET o == Exec(Ledger, c, t)
                       job == JobAt(Ledger, j)
                       isClaimed == job.status = "Claimed"
                       isWorker == c.sender = job.worker
                       filled == c.arg # ""
                   IN  /\ o.err = "" <=> (isClaimed /\ isWorker /\ filled)
                       /\ ~isClaimed => ErrorKind(o.err) = "StateError"
                       /\ isClaimed /\ ~isWorker
                             => ErrorKind(o.err) = "AuthorizationError"
                       /\ isClaimed /\ isWorker /\ ~filled
                             => ErrorKind(o.err) = "ValidationError"
                       /\ o.sent = <<>>
                       /\ o.L.balance = balance
                       /\ o.err = "" =>
                             /\ j \in 1..jobCounter
                             /\ o.L.jobs[j]
                                   = [job EXCEPT !.resultHash = c.arg,
                                                 !.submittedAt = t,
                                                 !.status = "Submitted"]
                             /\ \A k \in JobIds \ {j} : o.L.jobs[k] = jobs[k]
             /\ \A c \in JobCalls(j, Refusers) \cup FreeCalls :
                   LET o == Exec(Ledger, c, t)
                   IN  \A k \in JobIds :
                          o.L.jobs[k].resultHash # jobs[k].resultHash
                             => /\ c.op = "submitResult"
                                /\ c.jobId = k
                                /\ jobs[k].status = "Claimed"
                                /\ jobs[k].resultHash = ""

\* A job whose worker has just submitted: the result is stored, submittedAt
\* is the block time, and nothing has been paid out for it.
C10_Witness ==
    \E j \in 1..jobCounter :
        /\ history[j] = <<"Open", "Claimed", "Submitted">>
        /\ jobs[j].resultHash = "r1"
        /\ jobs[j].submittedAt = now
        /\ jobs[j].submittedAt > jobs[j].deadline
        /\ paidOut[j] = 0
        /\ balance >= jobs[j].payment + jobs[j].workerStake

\* A result of n characters.
RECURSIVE ResultOfLength(_)
ResultOfLength(n) ==
    IF n = 0 THEN ""
    ELSE IF n % 2 = 1 THEN "r" \o ResultOfLength(n - 1)
    ELSE LET half == ResultOfLength(n \div 2) IN half \o half

\* Results on both sides of the service's cut.
LongResults ==
    {ResultOfLength(n) : n \in {1, maxLen - 1, maxLen, maxLen + 1, 2 * maxLen}}

\* C11: a submission is never rejected for its length, and the stored result
\* is never longer than the maximum of 10,000 characters: for every Claimed
\* job and every non-empty result of any length that the job's worker
\* submits through the contract service, the submission goes through and the
\* result stored on the job has at most 10,000 characters.
C11_StoredResultWithinMaxLen ==
    \A j \in 1..jobCounter :
        jobs[j].status = "Claimed" =>
            \A r \in LongResults :
                LET o == ServiceSubmitResult(Ledger, jobs[j].worker, j, r, now)
                IN  /\ o.err = ""
                    /\ o.L.jobs[j].status = "Submitted"
                    /\ Len(o.L.jobs[j].resultHash) <= 10000

\* The calls of approveResult on job j.
ApproveCalls(j) ==
    {Call("approveResult", s, 0, j, 0, x) : s \in Addr, x \in Refusers}

\* C12: approveResult on a job that is not Submitted (Open, Completed or any
\* other status, or never posted) fails with a StateError, sends nothing and
\* leaves the whole ledger, balance included, as it was; an approveResult
\* that goes through leaves the job Completed, so that every further
\* approveResult on it fails with a StateError: a job is paid out through
\* approveResult at most once.
C12_ApproveNeedsSubmitted ==
    \A j \in AnyJobIds :
        \A c \in ApproveCalls(j) :
            LET o == Exec(Ledger, c, now)
                job == JobAt(Ledger, j)
            IN  /\ job.status # "Submitted" =>
                      /\ ErrorKind(o.err) = "StateError"
                      /\ o.L = Ledger
                      /\ o.sent = <<>>
                /\ o.err = "" =>
                      /\ job.status = "Submitted"
                      /\ o.L.jobs[j].status = "Completed"
                      /\ \A d \in ApproveCalls(j), t \in {now, now + 1} :
                            LET again == Exec(o.L, d, t)
                            IN  /\ ErrorKind(again.err) = "StateError"
                                /\ again.L = o.L
                                /\ again.sent = <<>>

\* A job approved by its poster and paid out once, beside a job still Open.
C12_Witness ==
    \E j \in 1..jobCounter, k \in 1..jobCounter :
        /\ history[j] = <<"Open", "Claimed", "Submitted", "Completed">>
        /\ jobs[j].submittedAt + AUTO_APPROVE_DELAY > now
        /\ paidOut[j] = jobs[j].payment + jobs[j].workerStake
        /\ jobs[k].status = "Open"

\* C13: autoApprove, whoever calls it, fails with a StateError unless the
\* job is Submitted, else with a DeadlineError ('Too early') unless the block
\* time is at least submittedAt + 24 hours; when both hold it does exactly
\* what approveResult by the job's poster does at that time: the same ledger,
\* the same transfers, and the same failure when a recipient refuses.
C13_AutoApprove ==
    \A j \in AnyJobIds :
        \A t \in TimesFor(j), s \in Addr, x \in Refusers :
            LET o == Exec(Ledger, Call("autoApprove", s, 0, j, 0, x), t)
                job == JobAt(Ledger, j)
                submitted == job.status = "Submitted"
                late == t >= job.submittedAt + 24 * 3600
                approved == Exec(Ledger,
                                 Call("approveResult", job.client, 0, j, 0, x),
                                 t)
            IN  /\ ~submitted => ErrorKind(o.err) = "StateError" /\ o.L = Ledger
                /\ submitted /\ ~late =>
                      /\ o.err = "Too early"
                      /\ ErrorKind(o.err) = "DeadlineError"
                      /\ o.L = Ledger
                      /\ o.sent = <<>>
                /\ submitted /\ late =>
                      /\ o = approved
                      /\ x \notin {job.worker, feeRecipient} =>
                            /\ o.err = ""
                            /\ o.L.jobs[j].status = "Completed"

\* A Submitted job whose delay has elapsed: autoApprove by an account that is
\* neither its poster nor its worker completes it and pays it out.
C13_Witness ==
    \E j \in 1..jobCounter :
        LET o == Exec(Ledger, Call("autoApprove", "owner", 0, j, 0, NoAddr), now)
        IN  /\ jobs[j].status = "Submitted"
            /\ now >= jobs[j].submittedAt + AUTO_APPROVE_DELAY
            /\ "owner" \notin {jobs[j].client, jobs[j].worker}
            /\ o.err = ""
            /\ o.L.jobs[j].status = "Completed"
            /\ Total(o.sent) = jobs[j].payment + jobs[j].workerStake

\* C14: no indefinite lock-up after submission: for every Submitted job, once
\* 24 hours have passed since submittedAt, autoApprove called by any account
\* goes through, whichever accounts accept or refuse ether, leaves the job
\* Completed and pays out the escrowed payment and stake.
C14_AutoApproveReleasesFunds ==
    \A j \in 1..jobCounter :
        jobs[j].status = "Submitted" =>
            \A t \in TimesFor(j), s \in Addr, x \in Refusers :
                t >= jobs[j].submittedAt + 24 * 3600 =>
                    LET o == Exec(Ledger, Call("autoApprove", s, 0, j, 0, x), t)
                    IN  /\ o.err = ""
                        /\ o.L.jobs[j].status = "Completed"
                        /\ Total(o.sent) = jobs[j].payment + jobs[j].workerStake

\* C15: cancelJob fails with a StateError and changes nothing unless the job
\* is Open.  On an Open job called by its poster, who accepts the refund, it
\* goes through: exactly one transfer, of exactly payment, to the poster; the
\* job becomes Cancelled and is otherwise as it was; no other job and no
\* agent's statistics or reputation change; and from then on every claimJob
\* on the job, by any account, with any stake, at any time, fails with a
\* StateError.  The same holds of every Cancelled job of a reachable state.
C15_CancelJob ==
    /\ \A j \in 1..jobCounter :
          jobs[j].status = "Cancelled" =>
              /\ history[j] = <<"Open", "Cancelled">> => jobs[j].worker = NoAddr
              /\ \A t \in TimesFor(j), d \in ClaimCalls(j) :
                    ErrorKind(Exec(Ledger, d, t).err) = "StateError"
    /\ \A j \in AnyJobIds :
          \A s \in Addr, x \in Refusers :
              LET o == Exec(Ledger, Call("cancelJob", s, 0, j, 0, x), now)
                  job == JobAt(Ledger, j)
              IN  /\ job.status # "Open" =>
                        /\ ErrorKind(o.err) = "StateError"
                        /\ o.L = Ledger
                        /\ o.sent = <<>>
                  /\ o.err = "" <=>
                        (job.status = "Open" /\ s = job.client /\ x # job.client)
                  /\ o.err = "" =>
                        /\ j \in 1..jobCounter
                        /\ o.sent = <<[to |-> job.client, amount |-> job.payment]>>
                        /\ o.L.balance = balance - job.payment
                        /\ o.L.jobs[j] = [job EXCEPT !.status = "Cancelled"]
                        /\ \A k \in JobIds \ {j} : o.L.jobs[k] = jobs[k]
                        /\ o.L.agentStats = agentStats
                        /\ \A t \in TimesFor(j), d \in ClaimCalls(j) :
                              LET claim == Exec(o.L, d, t)
                              IN  /\ ErrorKind(claim.err) = "StateError"
                                  /\ claim.L = o.L

\* A job cancelled by its poster: the payment went back, nobody's statistics
\* but the poster's posting counters exist, and a fully staked claim by
\* another account is turned down.
C15_Witness ==
    \E j \in 1..jobCounter :
        /\ history[j] = <<"Open", "Cancelled">>
        /\ paidOut[j] = jobs[j].payment
        /\ jobs[j].worker = NoAddr
        /\ agentStats["bob"] = ZeroStats
        /\ now < jobs[j].deadline
        /\ Exec(Ledger, Call("claimJob", "bob", jobs[j].stakeRequired, j, 0,
                             NoAddr), now).err = "Job not open"

\* The ledger with job j put back to Claimed, and the outcome of claimExpired
\* on it just after its deadline: what expire does to this job.
AsExpired(j, x) ==
    Exec([Ledger EXCEPT !.jobs[j].status = "Claimed"],
         Call("claimExpired", jobs[j].client, 0, j, 0, x),
         jobs[j].deadline + 1)

\* C16: resolveDispute changes nothing unless the job is Disputed and the
\* caller is the owner: called by the owner on a job that is not Disputed it
\* fails with a StateError, called by anyone else with an
\* AuthorizationError.  On a Disputed job, called by the owner, with no
\* recipient refusing: with workerWins it pays the fee, floor(payment * 25 /
\* 1000), to the fee recipient and payment - fee + workerStake to the worker,
\* sets Completed, adds 1 to the worker's jobsCompleted, payment - fee to its
\* totalEarned and 100 to its reputation (at most 1000); without workerWins
\* it sends payment + workerStake to the poster, sets Cancelled, adds 1 to
\* the worker's jobsFailed and takes 100 off its reputation (at least 0),
\* with the same transfer and the same statistics as claimExpired on that job.
C16_ResolveDispute ==
    \A j \in AnyJobIds :
        \A s \in Addr, w \in BOOLEAN, x \in Refusers :
            LET o == Exec(Ledger, Call("resolveDispute", s, 0, j, w, x), now)
                job == JobAt(Ledger, j)
                old == agentStats[job.worker]
                new == o.L.agentStats[job.worker]
            IN  /\ job.status # "Disputed" =>
                      /\ o.L = Ledger
                      /\ o.sent = <<>>
                      /\ ErrorKind(o.err) = IF s = owner THEN "StateError"
                                            ELSE "AuthorizationError"
                /\ o.err = "" => job.status = "Disputed" /\ s = owner
                /\ job.status = "Disputed" /\ s = owner /\ w
                   /\ x \notin {job.worker, feeRecipient} =>
                      /\ o.err = ""
                      /\ Len(o.sent) = 2
                      /\ o.sent[1].to = feeRecipient
                      /\ o.sent[2].to = job.worker
                      /\ o.sent[1].amount * 1000 <= job.payment * 25
                      /\ job.payment * 25 < (o.sent[1].amount + 1) * 1000
                      /\ o.sent[2].amount
                            = job.payment - o.sent[1].amount + job.workerStake
                      /\ o.L.jobs[j] = [job EXCEPT !.status = "Completed"]
                      /\ new = [old EXCEPT
                                  !.jobsCompleted = @ + 1,
                                  !.totalEarned = @ + job.payment - o.sent[1].amount,
                                  !.reputation = IF @ + 100 > 1000 THEN 1000
                                                 ELSE @ + 100]
                /\ job.status = "Disputed" /\ s = owner /\ ~w /\ x # job.client =>
                      /\ o.err = ""
                      /\ o.sent = <<[to |-> job.client,
                                     amount |-> job.payment + job.workerStake]>>
                      /\ o.L.jobs[j] = [job EXCEPT !.status = "Cancelled"]
                      /\ new = [old EXCEPT
                                  !.jobsFailed = @ + 1,
                                  !.reputation = IF @ < 100 THEN 0 ELSE @ - 100]
                      /\ o.sent = AsExpired(j, x).sent
                      /\ o.L.agentStats = AsExpired(j, x).L.agentStats
                      /\ o.L.balance = AsExpired(j, x).L.balance
                      /\ AsExpired(j, x).L.jobs[j].status = "Expired"
                /\ job.status = "Disputed" /\ s = owner /\ o.err = "" =>
                      /\ \A a \in Addr \ {job.worker} :
                            o.L.agentStats[a] = agentStats[a]
                      /\ \A k \in JobIds \ {j} : o.L.jobs[k] = jobs[k]

\* One dispute resolved against the worker and one for the worker.
C16_Witness ==
    \E j \in 1..jobCounter, k \in 1..jobCounter :
        /\ history[j] = <<"Open", "Claimed", "Submitted", "Disputed", "Cancelled">>
        /\ history[k] = <<"Open", "Claimed", "Submitted", "Disputed", "Completed">>
        /\ paidOut[j] = jobs[j].payment + jobs[j].workerStake
        /\ agentStats[jobs[j].worker].jobsFailed >= 1
        /\ agentStats[jobs[k].worker].jobsCompleted >= 1

\* The calls on job j by an account that lacks the role the function asks
\* for: approveResult, disputeResult and cancelJob not by the poster,
\* submitResult not by the worker, resolveDispute not by the owner.
UnauthorizedCalls(j) ==
    {c \in JobCalls(j, Refusers) :
        \/ c.op \in {"approveResult", "disputeResult", "cancelJob"}
           /\ c.sender # JobAt(Ledger, j).client
        \/ c.op = "submitResult" /\ c.sender # JobAt(Ledger, j).worker
        \/ c.op = "resolveDispute" /\ c.sender # owner}

\* The status a function requires of the job before it looks at the caller.
RequiredStatus(op) ==
    CASE op \in {"approveResult", "disputeResult"} -> "Submitted"
      [] op = "cancelJob" -> "Open"
      [] op = "submitResult" -> "Claimed"

\* C17 as stated: with a caller that lacks the role, each of approveResult,
\* disputeResult, cancelJob, submitResult and resolveDispute fails with an
\* AuthorizationError and changes nothing, whatever the status of the posted
\* job it names.
C17_RoleChecksAnyStatus ==
    \A j \in 1..jobCounter :
        \A c \in UnauthorizedCalls(j) :
            LET o == Exec(Ledger, c, now)
            IN  /\ ErrorKind(o.err) = "AuthorizationError"
                /\ o.L = Ledger
                /\ o.sent = <<>>

\* C17, amended: with a caller that lacks the role each of these calls fails,
\* sends nothing and changes nothing, whatever the job's status, and one that
\* goes through was made by the poster (approveResult, disputeResult,
\* cancelJob), the worker (submitResult) or the owner (resolveDispute).  The
\* error is an AuthorizationError for resolveDispute in every status, and for
\* the other four when the job has the status the function requires; in any
\* other status the status is checked first and the error is a StateError.
C17_RoleChecks ==
    \A j \in AnyJobIds :
        /\ \A c \in UnauthorizedCalls(j) :
              LET o == Exec(Ledger, c, now)
                  job == JobAt(Ledger, j)
              IN  /\ o.err # ""
                  /\ o.L = Ledger
                  /\ o.sent = <<>>
                  /\ ErrorKind(o.err) =
                        IF c.op = "resolveDispute" THEN "AuthorizationError"
                        ELSE IF job.status = RequiredStatus(c.op)
                        THEN "AuthorizationError"
                        ELSE "StateError"
        /\ \A c \in JobCalls(j, Refusers) :
              Exec(Ledger, c, now).err = "" =>
                  /\ c.op \in {"approveResult", "disputeResult", "cancelJob"}
                        => c.sender = JobAt(Ledger, j).client
                  /\ c.op = "submitResult" => c.sender = JobAt(Ledger, j).worker
                  /\ c.op = "resolveDispute" => c.sender = owner

\* A Submitted job on which the worker's approveResult is turned down for the
\* caller, beside an Open job on which it is turned down for the status.
C17_Witness ==
    \E j \in 1..jobCounter, k \in 1..jobCounter :
        /\ jobs[j].status = "Submitted"
        /\ Exec(Ledger, Call("approveResult", jobs[j].worker, 0, j, 0, NoAddr),
                now).err = "Not the client"
        /\ Exec(Ledger, Call("disputeResult", "owner", 0, j, 0, NoAddr),
                now).err = "Not the client"
        /\ jobs[k].status = "Open"
        /\ Exec(Ledger, Call("approveResult", "bob", 0, k, 0, NoAddr),
                now).err = "No result to approve"
        /\ Exec(Ledger, Call("resolveDispute", "bob", 0, k, TRUE, NoAddr),
                now).err = "Not owner"

\* The jobs agent a has completed as worker up to job n, and what they
\* earned: for each, the payment less the fee.
RECURSIVE CompletedBy(_, _)
CompletedBy(a, n) ==
    IF n = 0 THEN 0
    ELSE CompletedBy(a, n - 1)
         + (IF jobs[n].status = "Completed" /\ jobs[n].worker = a THEN 1 ELSE 0)
RECURSIVE EarnedBy(_, _)
EarnedBy(a, n) ==
    IF n = 0 THEN 0
    ELSE EarnedBy(a, n - 1)
         + (IF jobs[n].status = "Completed" /\ jobs[n].worker = a
            THEN jobs[n].payment - ((jobs[n].payment * 25) \div 1000)
            ELSE 0)

\* C18: every call that goes through and makes a job Completed is an
\* approveResult, an autoApprove or a resolveDispute with workerWins; it adds
\* exactly 1 to the worker's jobsCompleted and exactly payment - fee, with
\* fee = floor(payment * 25 / 1000), to the worker's totalEarned, the stake
\* it returns not being counted; it changes nobody else's jobsCompleted or
\* totalEarned, and no other call changes anybody's.  So each agent's
\* jobsCompleted is the number of Completed jobs it worked on and its
\* totalEarned the sum of their payments less the fees.
C18_CompletionStats ==
    /\ \A a \in Addr :
          /\ agentStats[a].jobsCompleted = CompletedBy(a, MaxJobs)
          /\ agentStats[a].totalEarned = EarnedBy(a, MaxJobs)
    /\ \A j \in AnyJobIds :
          \A t \in TimesFor(j), c \in JobCalls(j, Refusers) \cup FreeCalls :
              LET o == Exec(Ledger, c, t)
                  job == JobAt(Ledger, j)
                  completes == /\ o.err = ""
                               /\ c.op \notin {"postJob", "setFeeRecipient"}
                               /\ j \in 1..jobCounter
                               /\ job.status # "Completed"
                               /\ o.L.jobs[j].status = "Completed"
                  earned == o.L.agentStats[job.worker].totalEarned
                               - agentStats[job.worker].totalEarned
                  fee == job.payment - earned
              IN  /\ (/\ o.err = ""
                      /\ \/ c.op \in {"approveResult", "autoApprove"}
                         \/ c.op = "resolveDispute" /\ c.arg = TRUE) => completes
                  /\ completes =>
                        /\ \/ c.op \in {"approveResult", "autoApprove"}
                           \/ c.op = "resolveDispute" /\ c.arg = TRUE
                        /\ o.L.agentStats[job.worker].jobsCompleted
                              = agentStats[job.worker].jobsCompleted + 1
                        /\ fee * 1000 <= job.payment * 25
                        /\ job.payment * 25 < (fee + 1) * 1000
                        /\ fee > 0
                        /\ \A a \in Addr \ {job.worker} :
                              /\ o.L.agentStats[a].jobsCompleted
                                    = agentStats[a].jobsCompleted
                              /\ o.L.agentStats[a].totalEarned
                                    = agentStats[a].totalEarned
                  /\ ~completes =>
                        \A a \in Addr :
                            /\ o.L.agentStats[a].jobsCompleted
                                  = agentStats[a].jobsCompleted
                            /\ o.L.agentStats[a].totalEarned
                                  = agentStats[a].totalEarned

\* A one-ether job completed: its worker got payment + stake less the fee
\* and has earned the payment less the fee, 0.975 ether.
C18_Witness ==
    \E j \in 1..jobCounter :
        /\ jobs[j].status = "Completed"
        /\ jobs[j].payment = Ether
        /\ jobs[j].workerStake = Ether \div 10
        /\ agentStats[jobs[j].worker].jobsCompleted = 1
        /\ agentStats[jobs[j].worker].totalEarned = 97500
        /\ paidOut[j] = 110000

\* ------------------------------------------------- workers with a past

\* The ledger as above, entered with workers whose reputation comes from
\* outcomes of earlier jobs: none yet, or nine successes in a row, from where
\* two more jobs reach and pass the cap of _updateReputation.
SeedReputations == {0, 900}

InitSeasoned ==
    /\ jobCounter = 0
    /\ totalPayouts = 0
    /\ owner = Deployer
    /\ feeRecipient = Deployer
    /\ jobs = [i \in JobIds |-> ZeroJob]
    /\ \E r \in SeedReputations :
          agentStats = [a \in Addr |->
                          IF a \in Workers
                          THEN [ZeroStats EXCEPT !.reputation = r]
                          ELSE ZeroStats]
    /\ jobsPosted = [a \in Addr |-> <<>>]
    /\ jobsClaimed = [a \in Addr |-> <<>>]
    /\ balance = 0
    /\ now = 0
    /\ history = [i \in JobIds |-> <<>>]
    /\ paidOut = [i \in JobIds |-> 0]
    /\ NewAgent

SpecSeasoned == InitSeasoned /\ [][Next]_vars

\* C19: every agent's reputation is between 0 and 1000.  A call that goes
\* through and makes a job Completed changes the reputation of the job's
\* worker to min(old + 100, 1000); one that makes it Expired, or Cancelled
\* by a lost dispute, changes it to max(old - 100, 0); nobody else's
\* reputation changes then, and no other call changes anybody's.
C19_ReputationBounded ==
    /\ \A a \in Addr :
          agentStats[a].reputation >= 0 /\ agentStats[a].reputation <= 1000
    /\ \A j \in AnyJobIds :
          \A t \in TimesFor(j), c \in JobCalls(j, Refusers) \cup FreeCalls :
              LET o == Exec(Ledger, c, t)
                  job == JobAt(Ledger, j)
                  onJob == /\ o.err = ""
                           /\ c.op \notin {"postJob", "setFeeRecipient"}
                           /\ j \in 1..jobCounter
                  success == onJob /\ job.status # "Completed"
                                   /\ o.L.jobs[j].status = "Completed"
                  failure == onJob /\
                             \/ job.status # "Expired"
                                /\ o.L.jobs[j].status = "Expired"
                             \/ c.op = "resolveDispute"
                                /\ o.L.jobs[j].status = "Cancelled"
                  old == agentStats[job.worker].reputation
                  new == o.L.agentStats[job.worker].reputation
              IN  /\ success => new = IF old + 100 < 1000 THEN old + 100 ELSE 1000
                  /\ failure => new = IF old - 100 > 0 THEN old - 100 ELSE 0
                  /\ \A a \in Addr :
                        ~((success \/ failure) /\ a = job.worker) =>
                            o.L.agentStats[a].reputation = agentStats[a].reputation

\* A worker who came with reputation 900, completed one job, which took it
\* to 1000, and a second one, which left it at 1000.
C19_Witness ==
    /\ jobCounter = 2
    /\ \A j \in 1..2 : jobs[j].status = "Completed" /\ jobs[j].worker = "bob"
    /\ agentStats["bob"].jobsCompleted = 2
    /\ agentStats["bob"].reputation = 1000

\* The fields of a job that are fixed once written.
Fixed(job) ==
    [worker |-> job.worker, workerStake |-> job.workerStake,
     client |-> job.client, payment |-> job.payment, deadline |-> job.deadline]

\* C20: once claimJob has set a job's worker, no call of any function, on
\* that job or another, by any account, at any time, changes the job's
\* worker, workerStake, poster, payment or deadline; a job has a worker
\* exactly when it has been Claimed, and keeps it through Submitted,
\* Disputed and every terminal status.
C20_WorkerImmutable ==
    /\ \A k \in JobIds :
          /\ jobs[k].worker # NoAddr <=> Entered(k, "Claimed") = 1
          /\ jobs[k].worker # NoAddr => jobs[k].workerStake >= jobs[k].stakeRequired
    /\ \A j \in AnyJobIds :
          \A t \in TimesFor(j), c \in JobCalls(j, Refusers) \cup FreeCalls :
              LET o == Exec(Ledger, c, t)
              IN  \A k \in JobIds :
                      jobs[k].worker # NoAddr =>
                          Fixed(o.L.jobs[k]) = Fixed(jobs[k])

\* A job claimed with one unit over its stake, then submitted and disputed,
\* and another one completed: both still carry the worker and the stake of
\* the claim.
C20_Witness ==
    \E j \in 1..jobCounter, k \in 1..jobCounter :
        /\ jobs[j].status = "Disputed"
        /\ jobs[j].worker = "bob"
        /\ jobs[j].workerStake = jobs[j].stakeRequired + 1
        /\ jobs[j].deadline = jobs[j].createdAt + 3600
        /\ jobs[k].status = "Completed"
        /\ jobs[k].worker = "bob"
        /\ jobs[k].workerStake = jobs[k].stakeRequired

\* C21: in every reachable state every posted job has stakeRequired equal to
\* the floor of payment * 10 / 100, and no call of any function changes the
\* stakeRequired or the payment of a posted job; every job that has ever
\* been Claimed has workerStake >= stakeRequired, and a job never Claimed
\* has no stake.
C21_StakeInvariant ==
    /\ \A k \in 1..jobCounter :
          /\ jobs[k].stakeRequired * 100 <= jobs[k].payment * 10
          /\ jobs[k].payment * 10 < (jobs[k].stakeRequired + 1) * 100
          /\ Entered(k, "Claimed") = 1 => jobs[k].workerStake >= jobs[k].stakeRequired
          /\ Entered(k, "Claimed") = 0 => jobs[k].workerStake = 0
    /\ \A j \in AnyJobIds :
          \A t \in TimesFor(j), c \in JobCalls(j, Refusers) \cup FreeCalls :
              LET o == Exec(Ledger, c, t)
              IN  \A k \in 1..jobCounter :
                      /\ o.L.jobs[k].stakeRequired = jobs[k].stakeRequired
                      /\ o.L.jobs[k].payment = jobs[k].payment

\* A job posted for 1019 units, whose tenth is 101.9: the stake required is
\* 101, it was claimed with 102, and it has reached a terminal status.
C21_Witness ==
    \E k \in 1..jobCounter :
        /\ jobs[k].payment = 1019
        /\ jobs[k].stakeRequired = 101
        /\ jobs[k].workerStake = 102
        /\ jobs[k].status \in Terminal

\* C22: isJobOpen agrees with claimJob.  At every block time, isJobOpen(id)
\* is true exactly when the job exists, is Open and the time is before its
\* deadline; when it is true, claimJob at that time by every account other
\* than the poster with at least stakeRequired goes through; when it is
\* false, every claimJob at that time fails; it is false for an id never
\* posted.
C22_IsJobOpenAgreesWithClaim ==
    \A j \in AnyJobIds :
        \A t \in TimesFor(j) :
            LET job == JobAt(Ledger, j)
                open == isJobOpen(Ledger, j, t)
                claims == ClaimCalls(j)
            IN  /\ open <=> (job.id # 0 /\ job.status = "Open" /\ t < job.deadline)
                /\ j > jobCounter => ~open
                /\ open =>
                      \A c \in claims :
                          (c.sender # job.client /\ c.value >= job.stakeRequired)
                              => Exec(Ledger, c, t).err = ""
                /\ ~open => \A c \in claims : Exec(Ledger, c, t).err # ""
                /\ (\E c \in claims : Exec(Ledger, c, t).err = "") => open

\* A job still Open whose deadline has passed: isJobOpen is false and a fully
\* staked claim is turned down as expired.
C22_Witness ==
    \E j \in 1..jobCounter :
        /\ jobs[j].status = "Open"
        /\ now >= jobs[j].deadline
        /\ ~isJobOpen(Ledger, j, now)
        /\ Exec(Ledger, Call("claimJob", "bob", jobs[j].stakeRequired, j, 0,
                             NoAddr), now).err = "Job expired"

\* ---------------------------------------------------------- the worker agent

\* WorkerAgent of src/agent/worker.js, run on the event loop: every await is
\* a point where the other start(), scanAndProcess() and stop() calls and the
\* timers may run; what lies between two awaits is one step.

minPayment == 1000
maxConcurrentJobs == 3
MinConfidence == 70

\* The account the agent signs with, and the account that posted the jobs.
Wallet == "bob"
JobPoster == "alice"

\* What the calls the agent awaits may answer.
Confidences == {69, 70}
WorkResults == {"", "r1"}
Transports == {"ok", "request lost", "receipt lost"}

\* Array.prototype.includes and the filter that removes an id.
Includes(array, id) == \E k \in 1..Len(array) : array[k] = id
Without(array, id) == SelectSeq(array, LAMBDA x : x # id)

\* The filter of scanAndProcess on the jobs getOpenJobs returned (by id,
\* with the payment the ledger holds for each).
suitableJobs(found, L, active, failed) ==
    SelectSeq(found, LAMBDA id : /\ JobAt(L, id).payment >= minPayment
                                 /\ ~Includes(active, id)
                                 /\ id \notin failed)

\* The head of the loop without the test of the capacity.
LoopEnds_IgnoresCapacity(todo, active) ==
    \/ todo = <<>>
    \/ ~isRunning

\* The head of the for loop of scanAndProcess, with the candidates todo still
\* to visit: the loop is left when the agent was stopped or is at capacity.
LoopEnds(todo, active) ==
    \/ todo = <<>>
    \/ ~isRunning
    \/ Len(active) >= maxConcurrentJobs

\* A timer handle that no armed timer has.
NewHandle == CHOOSE h \in 1..(Cardinality(armed) + 1) :
                 h \notin armed /\ \A g \in 1..(h - 1) : g \in armed

\* How many of the calls in progress are at pc with job id.
CyclesAt(pc, id) ==
    LET at == {x \in BagToSet(cycles) : x.pc = pc /\ x.job = id}
    IN  BagCardinality([x \in at |-> cycles[x]])

\* One call in progress, r, goes on as r2; or ends.
Becomes(r, r2) == cycles' = (cycles (-) SetToBag({r})) (+) SetToBag({r2})
Ends(r) == cycles' = cycles (-) SetToBag({r})

\* scanAndProcess of cycle r returns.  start() awaits its first scan and then
\* arms the repeating timer and keeps its handle.
Return(r) ==
    /\ Ends(r)
    /\ IF r.by = "start"
       THEN /\ intervalId' = NewHandle
            /\ armed' = armed \cup {NewHandle}
       ELSE UNCHANGED <<intervalId, armed>>

\* Cycle r is at the head of its loop with the candidates todo, the active
\* jobs being active: it returns, or calls evaluateJob on the first of them.
Loop(r, todo, active) ==
    IF LoopEnds(todo, active)
    THEN Return(r)
    ELSE /\ Becomes(r, [r EXCEPT !.pc = "evaluate", !.job = Head(todo),
                                 !.todo = Tail(todo), !.result = ""])
         /\ UNCHANGED <<intervalId, armed>>

\* scanAndProcess is entered from r, a start() in progress or NoCycle for a
\* tick of the timer: it returns at once when the agent is not running or is
\* at capacity, and otherwise calls getOpenJobs.
Scan(r, by) ==
    LET left == IF r = NoCycle THEN cycles ELSE cycles (-) SetToBag({r}) IN
    IF ~isRunning \/ Len(activeJobs) >= maxConcurrentJobs
    THEN /\ cycles' = left
         /\ IF by = "start"
            THEN /\ intervalId' = NewHandle
                 /\ armed' = armed \cup {NewHandle}
            ELSE UNCHANGED <<intervalId, armed>>
    ELSE /\ cycles' = left (+) SetToBag({[NoCycle EXCEPT !.pc = "fetch",
                                                          !.by = by]})
         /\ UNCHANGED <<intervalId, armed>>

\* start() without its test of isRunning.
Start_Unguarded ==
    /\ BagCardinality(cycles) < MaxCycles
    /\ isRunning' = TRUE
    /\ cycles' = cycles (+) SetToBag({[NoCycle EXCEPT !.pc = "balance",
                                                      !.by = "start"]})
    /\ UNCHANGED <<activeJobs, failedJobs, intervalId, armed, deletions, stops,
                   running, started>>
    /\ UNCHANGED <<ledgerVars, serviceVars>>

\* start(): nothing when the agent is running; otherwise isRunning is set and
\* the balance is asked for.
Start ==
    /\ IF isRunning
       THEN UNCHANGED <<isRunning, cycles>>
       ELSE /\ BagCardinality(cycles) < MaxCycles
            /\ isRunning' = TRUE
            /\ cycles' = cycles (+) SetToBag({[NoCycle EXCEPT !.pc = "balance",
                                                              !.by = "start"]})
    /\ UNCHANGED <<activeJobs, failedJobs, intervalId, armed, deletions, stops,
                   running, started>>
    /\ UNCHANGED <<ledgerVars, serviceVars>>

\* start() after getBalance: the first scan is run and awaited; when
\* getBalance throws, start() ends there.
BalanceReturns(c) ==
    /\ c.pc = "balance"
    /\ \E ok \in BOOLEAN :
          IF ok
          THEN Scan(c, "start")
          ELSE /\ Ends(c)
               /\ UNCHANGED <<intervalId, armed>>
    /\ UNCHANGED <<isRunning, activeJobs, failedJobs, deletions, stops,
                   running, started>>
    /\ UNCHANGED <<ledgerVars, serviceVars>>

\* stop(): isRunning is cleared and the timer whose handle the agent holds
\* is cleared.
Stop ==
    /\ stops < MaxStops
    /\ stops' = stops + 1
    /\ isRunning' = FALSE
    /\ IF intervalId # 0
       THEN /\ armed' = armed \ {intervalId}
            /\ intervalId' = 0
       ELSE UNCHANGED <<armed, intervalId>>
    /\ UNCHANGED <<activeJobs, failedJobs, deletions, cycles, running,
                   started>>
    /\ UNCHANGED <<ledgerVars, serviceVars>>

\* An armed timer fires: scanAndProcess is called.
Tick(h) ==
    /\ h \in armed
    /\ IF ~isRunning \/ Len(activeJobs) >= maxConcurrentJobs
       THEN UNCHANGED <<cycles, intervalId, armed>>
       ELSE /\ BagCardinality(cycles) < MaxCycles
            /\ Scan(NoCycle, "timer")
    /\ UNCHANGED <<isRunning, activeJobs, failedJobs, deletions, stops,
                   running, started>>
    /\ UNCHANGED <<ledgerVars, serviceVars>>

\* getOpenJobs: the ids from the newest down that isJobOpen holds of, at
\* most limit of them.
RECURSIVE getOpenJobs(_, _, _, _)
getOpenJobs(L, i, limit, timestamp) ==
    IF ~(i >= 1 /\ 0 < limit)
    THEN <<>>
    ELSE IF isJobOpen(L, i, timestamp)
    THEN <<i>> \o getOpenJobs(L, i - 1, limit - 1, timestamp)
    ELSE getOpenJobs(L, i - 1, limit, timestamp)

\* getOpenJobs answers cycle c: the scan filters what was found and enters
\* its loop; when getOpenJobs throws, the scan ends in its catch.
ScanLimit == 20
FetchReturns(c) ==
    /\ c.pc = "fetch"
    /\ \/ Return(c)
       \/ Loop(c, suitableJobs(getOpenJobs(Ledger, jobCounter, ScanLimit, now),
                               Ledger, activeJobs, failedJobs),
               activeJobs)
    /\ UNCHANGED <<isRunning, activeJobs, failedJobs, deletions, stops,
                   running, started>>
    /\ UNCHANGED <<ledgerVars, serviceVars>>

\* evaluateJob answers cycle c: processJob is called, which calls claimJob,
\* when the job can be done with confidence; when evaluateJob throws, the
\* scan ends in its catch.
EvaluateReturns(c) ==
    /\ c.pc = "evaluate"
    /\ \/ Return(c)
       \/ \E canDo \in BOOLEAN, confidence \in Confidences :
             IF canDo /\ confidence >= MinConfidence
             THEN /\ Becomes(c, [c EXCEPT !.pc = "claim"])
                  /\ UNCHANGED <<intervalId, armed>>
             ELSE Loop(c, c.todo, activeJobs)
    /\ UNCHANGED <<isRunning, activeJobs, failedJobs, deletions, stops,
                   running, started>>
    /\ UNCHANGED <<ledgerVars, serviceVars>>

\* ContractService.claimJob sends the stake the ledger requires.  The
\* transaction may not reach the ledger, and its receipt may not reach the
\* service: the service then throws, as it does when the ledger reverts.
ServiceClaimJob(L, sender, jobId, timestamp, transport) ==
    IF transport = "request lost"
    THEN Revert(L, "transport")
    ELSE claimJob(L, sender, JobAt(L, jobId).stakeRequired, jobId, timestamp)

\* The catch of processJob without its setTimeout.
Quarantine_NoTimer(c, id) ==
    /\ activeJobs' = Without(activeJobs, id)
    /\ failedJobs' = failedJobs \cup {id}
    /\ UNCHANGED deletions
    /\ Loop(c, c.todo, Without(activeJobs, id))

\* The catch of processJob on job id, then the loop of cycle c goes on.
Quarantine(c, id) ==
    /\ activeJobs' = Without(activeJobs, id)
    /\ failedJobs' = failedJobs \cup {id}
    /\ deletions' = [deletions EXCEPT ![id] = @ + 1]
    /\ Loop(c, c.todo, Without(activeJobs, id))

\* processJob that goes on to the work whether or not the claim succeeded.
ClaimReturns_IgnoresFailure(c) ==
    LET id == c.job IN
    /\ c.pc = "claim"
    /\ \E transport \in Transports :
          LET o == ServiceClaimJob(Ledger, Wallet, id, now, transport)
          IN  /\ Commit(Call("claimJob", Wallet, JobAt(Ledger, id).stakeRequired,
                             id, 0, NoAddr), o)
              /\ activeJobs' = Append(activeJobs, id)
              /\ Becomes(c, [c EXCEPT !.pc = "work"])
              /\ running' = [running EXCEPT ![id] = @ + 1]
              /\ started' = [started EXCEPT ![id] = @ + 1]
              /\ UNCHANGED <<intervalId, armed>>
    /\ UNCHANGED <<isRunning, failedJobs, deletions, stops, now>>
    /\ UNCHANGED serviceVars

\* processJob that quarantines the job of a claim that failed.
ClaimReturns_QuarantinesFailure(c) ==
    LET id == c.job IN
    /\ c.pc = "claim"
    /\ \E transport \in Transports :
          LET o == ServiceClaimJob(Ledger, Wallet, id, now, transport)
              claimed == o.err = "" /\ transport = "ok"
          IN  /\ Commit(Call("claimJob", Wallet, JobAt(Ledger, id).stakeRequired,
                             id, 0, NoAddr), o)
              /\ IF claimed
                 THEN /\ activeJobs' = Append(activeJobs, id)
                      /\ Becomes(c, [c EXCEPT !.pc = "work"])
                      /\ running' = [running EXCEPT ![id] = @ + 1]
                      /\ started' = [started EXCEPT ![id] = @ + 1]
                      /\ UNCHANGED <<intervalId, armed, failedJobs, deletions>>
                 ELSE /\ Quarantine(c, id)
                      /\ UNCHANGED <<running, started>>
    /\ UNCHANGED <<isRunning, stops, now>>
    /\ UNCHANGED serviceVars

\* claimJob answers cycle c.  A claim that failed ends processJob; after one
\* that went through the job is active and doWork is raced with the timeout.
ClaimReturns(c) ==
    LET id == c.job IN
    /\ c.pc = "claim"
    /\ \E transport \in Transports :
          LET o == ServiceClaimJob(Ledger, Wallet, id, now, transport)
              claimed == o.err = "" /\ transport = "ok"
          IN  /\ Commit(Call("claimJob", Wallet, JobAt(Ledger, id).stakeRequired,
                             id, 0, NoAddr), o)
              /\ IF claimed
                 THEN /\ activeJobs' = Append(activeJobs, id)
                      /\ Becomes(c, [c EXCEPT !.pc = "work"])
                      /\ running' = [running EXCEPT ![id] = @ + 1]
                      /\ started' = [started EXCEPT ![id] = @ + 1]
                      /\ UNCHANGED <<intervalId, armed>>
                 ELSE /\ Loop(c, c.todo, activeJobs)
                      /\ UNCHANGED <<activeJobs, running, started>>
    /\ UNCHANGED <<isRunning, failedJobs, deletions, stops, now>>
    /\ UNCHANGED serviceVars

\* processJob that awaits doWork alone: no timer ends the wait.
ProcessingTimeout_Never(c) ==
    /\ c.pc = "work"
    /\ FALSE
    /\ UNCHANGED vars

\* The five-minute timer of processJob fires while doWork has not returned:
\* the race rejects and the catch takes the job out of activeJobs and
\* quarantines it; doWork goes on unawaited.
ProcessingTimeout(c) ==
    /\ c.pc = "work"
    /\ UNCHANGED running
    /\ Quarantine(c, c.job)
    /\ UNCHANGED <<isRunning, stops, started>>
    /\ UNCHANGED <<ledgerVars, serviceVars>>

\* processJob that takes the job out of activeJobs as soon as doWork has
\* returned, before the result is submitted.
WorkReturns_RemovesEarly(c) ==
    LET id == c.job IN
    /\ c.pc = "work"
    /\ \/ \E r \in WorkResults :
             /\ Becomes(c, [c EXCEPT !.pc = "submit", !.result = r])
             /\ running' = [running EXCEPT ![id] = @ - 1]
             /\ activeJobs' = Without(activeJobs, id)
             /\ UNCHANGED <<failedJobs, deletions, intervalId, armed>>
       \/ /\ running' = [running EXCEPT ![id] = @ - 1]
          /\ Quarantine(c, id)
       \/ /\ UNCHANGED running
          /\ Quarantine(c, id)
    /\ UNCHANGED <<isRunning, stops, started>>
    /\ UNCHANGED <<ledgerVars, serviceVars>>

\* The race of doWork and the timeout is settled for cycle c: doWork
\* returned a result, which is submitted, or threw, or the timeout came
\* first, doWork still being under way.
WorkReturns(c) ==
    LET id == c.job IN
    \/ /\ c.pc = "work"
       /\ \/ \E r \in WorkResults :
                /\ Becomes(c, [c EXCEPT !.pc = "submit", !.result = r])
                /\ running' = [running EXCEPT ![id] = @ - 1]
                /\ UNCHANGED <<activeJobs, failedJobs, deletions, intervalId,
                               armed>>
          \/ /\ running' = [running EXCEPT ![id] = @ - 1]
             /\ Quarantine(c, id)
       /\ UNCHANGED <<isRunning, stops, started>>
       /\ UNCHANGED <<ledgerVars, serviceVars>>
    \/ ProcessingTimeout(c)

\* submitResult answers cycle c: the job is no longer active; when the
\* submission threw, the job is quarantined as well.
SubmitReturns(c) ==
    LET id == c.job IN
    /\ c.pc = "submit"
    /\ \E transport \in Transports :
          LET o == IF transport = "request lost"
                   THEN Revert(Ledger, "transport")
                   ELSE ServiceSubmitResult(Ledger, Wallet, id,
                                            c.result, now)
          IN  /\ Commit(Call("submitResult", Wallet, 0, id, c.result,
                             NoAddr), o)
              /\ IF o.err = "" /\ transport = "ok"
                 THEN /\ activeJobs' = Without(activeJobs, id)
                      /\ Loop(c, c.todo, Without(activeJobs, id))
                      /\ UNCHANGED <<failedJobs, deletions>>
                 ELSE Quarantine(c, id)
    /\ UNCHANGED <<isRunning, stops, running, started, now>>
    /\ UNCHANGED serviceVars

\* A late doWork whose result is submitted all the same.
LateWork_Applies(id) ==
    /\ running[id] > CyclesAt("work", id)
    /\ running' = [running EXCEPT ![id] = @ - 1]
    /\ \E r \in WorkResults :
          Commit(Call("submitResult", Wallet, 0, id, r, NoAddr),
                 ServiceSubmitResult(Ledger, Wallet, id, r, now))
    /\ UNCHANGED <<isRunning, activeJobs, failedJobs, intervalId, armed,
                   deletions, cycles, stops, started, now>>
    /\ UNCHANGED serviceVars

\* A doWork call that lost the race to the timeout returns: nobody awaits it.
LateWork(id) ==
    /\ running[id] > CyclesAt("work", id)
    /\ running' = [running EXCEPT ![id] = @ - 1]
    /\ UNCHANGED <<isRunning, activeJobs, failedJobs, intervalId, armed,
                   deletions, cycles, stops, started>>
    /\ UNCHANGED <<ledgerVars, serviceVars>>

\* Ten minutes after job id was quarantined its timer fires:
\* failedJobs.delete(id).
FailedJobsDelete(id) ==
    /\ deletions[id] > 0
    /\ deletions' = [deletions EXCEPT ![id] = @ - 1]
    /\ failedJobs' = failedJobs \ {id}
    /\ UNCHANGED <<isRunning, activeJobs, intervalId, armed, cycles, stops, running, started>>
    /\ UNCHANGED <<ledgerVars, serviceVars>>

\* The ledger with n jobs of one ether posted and open.
RECURSIVE Posted(_)
Posted(n) ==
    IF n = 0
    THEN [jobCounter |-> 0, totalPayouts |-> 0, owner |-> Deployer,
          feeRecipient |-> Deployer,
          jobs |-> [i \in WorkerJobIds |-> ZeroJob],
          agentStats |-> [a \in Addr |-> ZeroStats],
          jobsPosted |-> [a \in Addr |-> <<>>],
          jobsClaimed |-> [a \in Addr |-> <<>>],
          balance |-> 0]
    ELSE postJob(Posted(n - 1), JobPoster, Ether, 24, 0).L

\* The agent is constructed on a ledger with n open jobs.
ConstructedOn(n) ==
    /\ jobCounter = Posted(n).jobCounter
    /\ totalPayouts = Posted(n).totalPayouts
    /\ owner = Posted(n).owner
    /\ feeRecipient = Posted(n).feeRecipient
    /\ jobs = Posted(n).jobs
    /\ agentStats = Posted(n).agentStats
    /\ jobsPosted = Posted(n).jobsPosted
    /\ jobsClaimed = Posted(n).jobsClaimed
    /\ balance = Posted(n).balance
    /\ now = 0
    /\ history = [i \in WorkerJobIds |-> IF i <= n THEN <<"Open">> ELSE <<>>]
    /\ paidOut = [i \in WorkerJobIds |-> 0]
    /\ NewAgent

InitAgent == ConstructedOn(AgentJobs)

NextAgent ==
    \/ Start
    \/ Stop
    \/ \E c \in BagToSet(cycles) : BalanceReturns(c)
    \/ \E h \in armed : Tick(h)
    \/ \E c \in BagToSet(cycles) : FetchReturns(c)
    \/ \E c \in BagToSet(cycles) : EvaluateReturns(c)
    \/ \E c \in BagToSet(cycles) : ClaimReturns(c)
    \/ \E c \in BagToSet(cycles) : WorkReturns(c)
    \/ \E c \in BagToSet(cycles) : SubmitReturns(c)
    \/ \E id \in WorkerJobIds : LateWork(id)
    \/ \E id \in WorkerJobIds : FailedJobsDelete(id)

SpecAgent == InitAgent /\ [][NextAgent]_vars

\* The agent on a ledger with more open jobs than it may hold, from its start
\* until the first doWork call returns.
InitBusy == ConstructedOn(WorkerJobs)

NextBusy ==
    \/ Start
    \/ \E c \in BagToSet(cycles) : BalanceReturns(c)
    \/ \E h \in armed : Tick(h)
    \/ \E c \in BagToSet(cycles) : FetchReturns(c)
    \/ \E c \in BagToSet(cycles) : EvaluateReturns(c)
    \/ \E c \in BagToSet(cycles) : ClaimReturns(c)

SpecBusy == InitBusy /\ [][NextBusy]_vars

\* ------------------------------------------------- claims about the agent

\* C23: at every instant, however the scan cycles overlap, there are at most
\* maxConcurrentJobs ids in activeJobs.
C23_CapacityInvariant == Len(activeJobs) <= maxConcurrentJobs

\* How many start() calls are in progress (awaiting the balance or their
\* first scan).
StartsInProgress ==
    LET by == {x \in BagToSet(cycles) : x.by = "start"}
    IN  BagCardinality([x \in by |-> cycles[x]])

\* C24: start() is idempotent.  While the agent is running no step launches
\* another start(); as long as stop() has not been called, the start() calls
\* in progress and the armed timers are at most one together, and when the
\* first scan of start() returns exactly one timer is armed, the one whose
\* handle the agent holds.
C24_StartIdempotent ==
    /\ [](stops = 0 => StartsInProgress + Cardinality(armed) <= 1)
    /\ [][/\ isRunning => StartsInProgress' <= StartsInProgress
          /\ \A r \in BagToSet(cycles) :
                (stops = 0 /\ r.by = "start" /\ r.pc # "balance" /\
                 StartsInProgress' < StartsInProgress)
                => (Cardinality(armed') = 1 /\ intervalId' \in armed')]_vars

C24_Witness ==
    /\ stops = 0
    /\ isRunning
    /\ StartsInProgress = 0
    /\ Cardinality(armed) = 1
    /\ intervalId \in armed

\* C25: however stop() and start() interleave, at no instant is more than
\* one repeating timer armed, and none is armed while isRunning is false (so
\* none is armed once stop() has returned).
C25_StopDisarms ==
    /\ Cardinality(armed) <= 1
    /\ ~isRunning => armed = {}

\* What a scan would find open, and would keep as candidates, if its filter
\* ran now.
FoundNow == getOpenJobs(Ledger, jobCounter, ScanLimit, now)
CandidatesNow == suitableJobs(FoundNow, Ledger, activeJobs, failedJobs)

\* C26: a job id is in failedJobs exactly from the moment it is quarantined
\* until its ten-minute timer fires; while it is there no scan's filter
\* keeps it, and from then on the filter keeps it again when the job is
\* open, paid enough and not active.  No id is quarantined again while a
\* timer of an earlier quarantine is pending, so the window counts from the
\* latest addition.
C26_QuarantineWindow ==
    \A id \in WorkerJobIds :
       /\ deletions[id] <= 1
       /\ id \in failedJobs <=> deletions[id] = 1
       /\ id \in failedJobs => ~Includes(CandidatesNow, id)
       /\ (/\ id \notin failedJobs
           /\ Includes(FoundNow, id)
           /\ ~Includes(activeJobs, id)
           /\ JobAt(Ledger, id).payment >= minPayment)
          => Includes(CandidatesNow, id)

\* A job was quarantined and its timer has fired, while another is still
\* quarantined.
C26_Witness ==
    \E id, other \in WorkerJobIds :
       /\ started[id] = 1
       /\ jobs[id].status = "Claimed"
       /\ CyclesAt("work", id) + CyclesAt("submit", id) = 0
       /\ id \notin failedJobs
       /\ other \in failedJobs

\* How often id stands in an array.
Occurrences(array, id) == Cardinality({k \in 1..Len(array) : array[k] = id})

\* C27: no job id is in activeJobs twice, and doWork is never running twice
\* at once for one id, however the scan cycles overlap.
C27_OneHolderPerJob ==
    \A id \in WorkerJobIds :
       /\ Occurrences(activeJobs, id) <= 1
       /\ running[id] <= 1
       /\ CyclesAt("work", id) + CyclesAt("submit", id) <= 1

\* Two cycles kept the same job; one holds it and the other awaits its claim.
C27_Witness ==
    \E id \in WorkerJobIds :
       /\ CyclesAt("work", id) = 1
       /\ CyclesAt("claim", id) >= 1
       /\ Includes(activeJobs, id)

\* The calls that a step newly brings to the await pc: they were not
\* awaiting it before the step, or fewer of them were.
Entering(pc) ==
    {r \in BagToSet(cycles') : r.pc = pc /\ CopiesIn(r, cycles') > CopiesIn(r, cycles)}

\* C28: no step calls getOpenJobs or starts the evaluation of a candidate
\* while activeJobs holds maxConcurrentJobs ids or more: a cycle that starts
\* at capacity returns at once, and a cycle whose loop comes to its next
\* candidate at capacity leaves the loop.
C28_BackPressure ==
    [][(Entering("fetch") # {} \/ Entering("evaluate") # {})
       => Len(activeJobs') < maxConcurrentJobs]_vars

\* The agent is at capacity, a job is still open, and every cycle has
\* stopped taking candidates.
C28_Witness ==
    /\ Len(activeJobs) = maxConcurrentJobs
    /\ FoundNow # <<>>
    /\ armed # {}
    /\ \A r \in BagToSet(cycles) : r.pc = "work"

\* C29: no job is evaluated or claimed while its payment is below
\* minPayment, its id is in activeJobs or its id is in failedJobs, at the
\* moment evaluateJob or claimJob is called for it.
C29_FilterHoldsWhenUsed ==
    [][\A r \in Entering("evaluate") \cup Entering("claim") :
          /\ JobAt(Ledger, r.job).payment >= minPayment
          /\ ~Includes(activeJobs', r.job)
          /\ r.job \notin failedJobs']_vars

\* The calls at the await pc that a step takes away.
Leaving(pc) ==
    {r \in BagToSet(cycles) : r.pc = pc /\ CopiesIn(r, cycles') < CopiesIn(r, cycles)}

\* C30: when a claim fails (claimJob returns false) the job becomes neither
\* active nor quarantined, doWork is not called for it, and the cycle goes
\* on at the head of its loop with the next candidate.
C30_FailedClaim ==
    [][\A r \in Leaving("claim") :
          Len(activeJobs') = Len(activeJobs)
          => /\ UNCHANGED <<activeJobs, failedJobs, deletions, running, started>>
             /\ IF LoopEnds(r.todo, activeJobs)
                THEN /\ Entering("evaluate") = {}
                     /\ BagCardinality(cycles') = BagCardinality(cycles) - 1
                ELSE Entering("evaluate") =
                        {[r EXCEPT !.pc = "evaluate", !.job = Head(r.todo),
                                   !.todo = Tail(r.todo)]}]_vars

\* A claim failed after the ledger had taken it: the job is Claimed there,
\* the agent neither holds nor quarantines it, and a cycle is at a later
\* candidate.
C30_Witness ==
    \E id \in WorkerJobIds :
       /\ jobs[id].status = "Claimed"
       /\ started[id] = 0
       /\ ~Includes(activeJobs, id)
       /\ id \notin failedJobs
       /\ \E r \in BagToSet(cycles) : r.pc = "evaluate" /\ r.job < id

\* C31: a claimed job is in activeJobs exactly while its work or its
\* submission is in progress.  When doWork returns, submitResult is called
\* with what it returned and the job stays active; when that submission
\* goes through, the job leaves activeJobs and is not quarantined.  When
\* doWork throws or is timed out, or the submission throws, the job leaves
\* activeJobs, enters failedJobs, and its ten-minute timer is armed.
C31_ActiveWhileInProgress ==
    /\ [](\A id \in WorkerJobIds :
            Occurrences(activeJobs, id) =
               CyclesAt("work", id) + CyclesAt("submit", id))
    /\ [][/\ \A r \in Leaving("work") :
               \/ /\ \E res \in WorkResults :
                        Entering("submit") =
                           {[r EXCEPT !.pc = "submit", !.result = res]}
                  /\ UNCHANGED <<activeJobs, failedJobs, deletions, jobs>>
               \/ /\ Entering("submit") = {}
                  /\ activeJobs' = Without(activeJobs, r.job)
                  /\ failedJobs' = failedJobs \cup {r.job}
                  /\ deletions' = [deletions EXCEPT ![r.job] = @ + 1]
                  /\ UNCHANGED jobs
          /\ \A r \in Leaving("submit") :
               /\ activeJobs' = Without(activeJobs, r.job)
               /\ \/ /\ jobs'[r.job].status = "Submitted"
                     /\ jobs'[r.job].resultHash = Truncated(r.result)
                     /\ UNCHANGED <<failedJobs, deletions>>
                  \/ /\ failedJobs' = failedJobs \cup {r.job}
                     /\ deletions' = [deletions EXCEPT ![r.job] = @ + 1]]_vars

\* One job was worked on, submitted and released; another failed and is
\* quarantined.
C31_Witness ==
    \E id, other \in WorkerJobIds :
       /\ started[id] = 1
       /\ jobs[id].status = "Submitted"
       /\ ~Includes(activeJobs, id)
       /\ id \notin failedJobs
       /\ deletions[id] = 0
       /\ started[other] = 1
       /\ jobs[other].status = "Claimed"
       /\ ~Includes(activeJobs, other)
       /\ other \in failedJobs

\* The agent claimed job id, and no call of it is working on the job or
\* submitting it any more: the work failed or was timed out.
GivenUp(id) ==
    /\ started[id] = 1
    /\ CyclesAt("work", id) + CyclesAt("submit", id) = 0
    /\ jobs[id].status = "Claimed"

\* The instants around the deadline of job id.
AroundDeadline(id) == {jobs[id].deadline, jobs[id].deadline + 1}

\* C32: when the timeout ends the wait for doWork, the job is given up: it
\* is Claimed on the ledger, no submission is in progress for it, and from
\* then on no step changes it on the ledger or calls submitResult for it,
\* also not the step in which doWork returns late.  claimExpired is then
\* refused up to the deadline and goes through after it, for any caller,
\* sending payment + workerStake to the poster.
C32_SoftTimeout ==
    /\ [](\A id \in WorkerJobIds :
            /\ running[id] > CyclesAt("work", id) => GivenUp(id)
            /\ GivenUp(id) =>
                 /\ ~Includes(activeJobs, id)
                 /\ jobs[id].worker = Wallet
                 /\ \A t \in AroundDeadline(id), s \in Addr :
                       LET o == claimExpired(Ledger, s, id, t, NoAddr) IN
                       IF t <= jobs[id].deadline
                       THEN o.err = "Deadline not passed" /\ o.L = Ledger
                       ELSE /\ o.err = ""
                            /\ o.L.jobs[id].status = "Expired"
                            /\ o.sent = <<[to |-> jobs[id].client,
                                           amount |-> jobs[id].payment +
                                                      jobs[id].workerStake]>>)
    /\ [][\A id \in WorkerJobIds :
            GivenUp(id) =>
               /\ jobs'[id] = jobs[id]
               /\ CyclesAt("work", id)' + CyclesAt("submit", id)' = 0]_vars

\* The timeout has ended the wait for a job whose doWork is still running.
C32_Witness ==
    \E id \in WorkerJobIds :
       /\ running[id] = 1
       /\ CyclesAt("work", id) = 0
       /\ id \in failedJobs
       /\ jobs[id].workerStake > 0

\* The awaits of a cycle that is handling a candidate.
CandidateAwaits == {"evaluate", "claim", "work", "submit"}

\* C33: a failure while a candidate is handled (evaluateJob throwing, the
\* claim failing, doWork failing or timing out, the submission failing)
\* neither ends the scan cycle nor stops the agent: a cycle that is handling
\* a candidate ends only when its loop is left (no candidate remains, the
\* agent was stopped, or it is at capacity), and no such step clears
\* isRunning or disarms a timer.
C33_FailureIsolation ==
    [][\A pc \in CandidateAwaits : \A r \in Leaving(pc) :
          /\ BagCardinality(cycles') < BagCardinality(cycles)
                => LoopEnds(r.todo, activeJobs')
          /\ isRunning' = isRunning
          /\ armed \subseteq armed']_vars

\* ------------------------------------- the ledger queries of a scan cycle

\* ContractService.getOpenJobs, one query at a time.  fetch.log lists the
\* queries sent to the ledger: which one, for which job, as which attempt of
\* withRetry, how it was answered, and how long withRetry then waited.

retries == 2
delay == 2000

\* How a query is answered: with its value, or with an error of this code.
Answers == {"ok", "TIMEOUT", "CALL_EXCEPTION"}

\* isTransient of withRetry (the last stands for a message that includes
\* 'rate limit').
isTransient(error) ==
    error \in {"NETWORK_ERROR", "SERVER_ERROR", "TIMEOUT", "rate limit"}

\* withRetry after attempt i of fn was answered: it returns the value,
\* throws the error, or waits and calls fn again.
withRetry(i, answer) ==
    IF answer = "ok" THEN [do |-> "return", wait |-> 0]
    ELSE IF i = retries \/ ~isTransient(answer) THEN [do |-> "throw", wait |-> 0]
    ELSE [do |-> "retry", wait |-> delay * (i + 1)]

\* The queries the service sends through withRetry.
ThroughWithRetry == {"jobCounter", "getJob"}

Logged(answer, wait) ==
    Append(fetch.log, [query |-> fetch.query, i |-> fetch.i,
                       attempt |-> fetch.attempt, answer |-> answer,
                       wait |-> wait])

\* The head of the loop of getOpenJobs at index i with the jobs found.
NextRead(i, found, log) ==
    IF i >= 1 /\ Len(found) < ScanLimit
    THEN [pc |-> "call", query |-> "isJobOpen", i |-> i, jobs |-> found,
          attempt |-> 0, log |-> log]
    ELSE [pc |-> "returned", query |-> "", i |-> i, jobs |-> found,
          attempt |-> 0, log |-> log]

\* getOpenJobs is called: getJobCounter sends its query.
GetOpenJobs ==
    /\ fetch.pc = "idle"
    /\ fetch' = [NoFetch EXCEPT !.pc = "call", !.query = "jobCounter"]
    /\ UNCHANGED <<ledgerVars, agentVars>>

\* The jobCounter query is answered: the loop starts at the newest job, or
\* withRetry tries again, or getOpenJobs throws.
JobCounterAnswers ==
    /\ fetch.pc = "call" /\ fetch.query = "jobCounter"
    /\ \E answer \in Answers :
          LET r == withRetry(fetch.attempt, answer)
              log == Logged(answer, r.wait)
          IN  fetch' = CASE r.do = "return" -> NextRead(jobCounter, <<>>, log)
                         [] r.do = "retry" ->
                               [fetch EXCEPT !.pc = "backoff", !.log = log]
                         [] r.do = "throw" ->
                               [fetch EXCEPT !.pc = "thrown", !.log = log]
    /\ UNCHANGED <<ledgerVars, agentVars>>

\* The isJobOpen query, sent without withRetry, is answered: an open job is
\* fetched, a job that is not open is passed over, and an error is caught
\* and the job skipped.
IsJobOpenAnswers ==
    /\ fetch.pc = "call" /\ fetch.query = "isJobOpen"
    /\ \E answer \in Answers :
          LET log == Logged(answer, 0) IN
          fetch' = IF answer = "ok" /\ isJobOpen(Ledger, fetch.i, now)
                   THEN [fetch EXCEPT !.query = "getJob", !.attempt = 0,
                                      !.log = log]
                   ELSE NextRead(fetch.i - 1, fetch.jobs, log)
    /\ UNCHANGED <<ledgerVars, agentVars>>

\* The queries of getJob are answered: the job is pushed, or withRetry
\* tries again, or its error is caught and the job skipped.
GetJobAnswers ==
    /\ fetch.pc = "call" /\ fetch.query = "getJob"
    /\ \E answer \in Answers :
          LET r == withRetry(fetch.attempt, answer)
              log == Logged(answer, r.wait)
          IN  fetch' = CASE r.do = "return" ->
                               NextRead(fetch.i - 1, Append(fetch.jobs, fetch.i),
                                        log)
                         [] r.do = "retry" ->
                               [fetch EXCEPT !.pc = "backoff", !.log = log]
                         [] r.do = "throw" ->
                               NextRead(fetch.i - 1, fetch.jobs, log)
    /\ UNCHANGED <<ledgerVars, agentVars>>

\* The wait of withRetry is over: fn is called again.
Backoff ==
    /\ fetch.pc = "backoff"
    /\ fetch' = [fetch EXCEPT !.pc = "call", !.attempt = @ + 1]
    /\ UNCHANGED <<ledgerVars, agentVars>>

NextService ==
    \/ GetOpenJobs
    \/ JobCounterAnswers
    \/ IsJobOpenAnswers
    \/ GetJobAnswers
    \/ Backoff

SpecService == InitAgent /\ [][NextService]_vars

\* The query logged at k was sent again by withRetry.
Retried(k) ==
    \/ k = Len(fetch.log) /\ fetch.pc = "backoff"
    \/ k = Len(fetch.log) /\ fetch.pc = "call" /\ fetch.attempt > fetch.log[k].attempt
                         /\ fetch.query = fetch.log[k].query
    \/ k < Len(fetch.log) /\ fetch.log[k + 1].query = fetch.log[k].query
                         /\ fetch.log[k + 1].i = fetch.log[k].i

\* The queries named are sent as withRetry sends them: at most retries + 1
\* times; again, after a wait of delay times the number of the attempt,
\* exactly when the answer was a transient error and attempts remain; so not
\* after a value, not after another error, and not after the last attempt.
RetryLaw(queries) ==
    \A k \in 1..Len(fetch.log) :
       LET e == fetch.log[k] IN
       e.query \in queries =>
          /\ e.attempt <= retries
          /\ Retried(k) <=> (isTransient(e.answer) /\ e.attempt < retries)
          /\ Retried(k) => e.wait = delay * (e.attempt + 1)
          /\ ~Retried(k) => e.wait = 0
          /\ (k < Len(fetch.log) /\ Retried(k))
                => /\ fetch.log[k + 1].attempt = e.attempt + 1
                   /\ fetch.log[k + 1].attempt * delay > e.attempt * delay

\* C34: withRetry calls the query at most retries + 1 times, returns the
\* first value, waits delay * attempt between attempts, rethrows another
\* error at once and the last error after the final attempt; and every
\* query of getOpenJobs (the job counter, isJobOpen, getJob) is sent that way.
C34_BoundedRetry == RetryLaw({"jobCounter", "isJobOpen", "getJob"})

\* What holds of the queries that do go through withRetry.
WithRetryHolds == RetryLaw(ThroughWithRetry)

\* --------------------------------------------- further claims on the ledger

\* What the contract holds for job jobId on storage L.
Held(L, jobId) ==
    LET job == JobAt(L, jobId) IN
    IF job.id = 0 THEN 0
    ELSE IF job.status = "Open" THEN job.payment
    ELSE IF job.status \in {"Claimed", "Submitted", "Disputed"}
    THEN job.payment + job.workerStake
    ELSE 0

RECURSIVE HeldUpTo(_, _)
HeldUpTo(L, n) == IF n = 0 THEN 0 ELSE Held(L, n) + HeldUpTo(L, n - 1)

\* C35: the balance of the contract is the sum of what it holds for its
\* jobs: the payment of an Open job, payment + workerStake of a Claimed,
\* Submitted or Disputed one, nothing of a terminal one.  A call that goes
\* through and makes a job terminal sends exactly what was held for that
\* job (fee and payout on completion, the payment on cancel, payment + stake
\* on expiry or a lost dispute) and leaves what is held for the others; any
\* other call sends nothing.
C35_EscrowConservation ==
    /\ balance = HeldUpTo(Ledger, MaxJobs)
    /\ \A j \in AnyJobIds :
          \A t \in TimesFor(j) :
             \A c \in JobCalls(j, Refusers) :
                LET o == Exec(Ledger, c, t)
                    job == JobAt(Ledger, j)
                    fee == (job.payment * PROTOCOL_FEE) \div 1000
                IN  o.err = "" =>
                       IF JobAt(o.L, j).status \in Terminal /\
                          job.status \notin Terminal
                       THEN /\ Total(o.sent) = Held(Ledger, j)
                            /\ Held(o.L, j) = 0
                            /\ o.L.balance = balance - Held(Ledger, j)
                            /\ \A k \in JobIds \ {j} :
                                  Held(o.L, k) = Held(Ledger, k)
                            /\ Total(o.sent) =
                                  CASE JobAt(o.L, j).status = "Completed" ->
                                          fee + (job.payment - fee + job.workerStake)
                                    [] c.op = "cancelJob" -> job.payment
                                    [] OTHER -> job.payment + job.workerStake
                       ELSE /\ o.sent = <<>>
                            /\ o.L.balance = balance + Deposit(c, o)

\* A job with a stake was paid out in full while another job is still held,
\* and the balance is exactly what is held for that other job.
C35_Witness ==
    \E j, k \in 1..jobCounter :
       /\ jobs[j].status \in Terminal
       /\ jobs[j].workerStake > 0
       /\ paidOut[j] = jobs[j].payment + jobs[j].workerStake
       /\ jobs[k].status \in {"Claimed", "Submitted", "Disputed"}
       /\ balance = jobs[k].payment + jobs[k].workerStake

\* The ether of the transfers after the k-th of a transaction.
SentAfter(sent, k) == Total(SubSeq(sent, k + 1, Len(sent)))

\* The storage the recipient's code would find if the transfers were made
\* before the function writes: that of the start of the call.
AtTransfer_BeforeWrites(L, o, k) ==
    [L EXCEPT !.balance = o.L.balance + SentAfter(o.sent, k)]

\* The storage the code of the recipient of the k-th transfer finds, in a
\* call on storage L with outcome o: cancelJob, claimExpired, resolveDispute
\* and _completeJob make every write before their first _sendPayment, so it
\* is the storage the call ends with, holding the ether not yet sent.
AtTransfer(L, o, k) ==
    [o.L EXCEPT !.balance = @ + SentAfter(o.sent, k)]

\* The calls a recipient may make back on job j during a transfer, by any
\* account it may make them through.
ReentrantCalls(j) == PayingCalls(j, {NoAddr})

\* The call r made during the k-th transfer of call c at block time t.
Reentry(c, t, k, r) ==
    LET o == Exec(Ledger, c, t) IN Exec(AtTransfer(Ledger, o, k), r, t)

\* The transfers of the calls on job j that go through.
TransfersOf(j) ==
    {x \in [c : PayingCalls(j, {NoAddr}), t : TimesFor(j), k : 1..2] :
        LET o == Exec(Ledger, x.c, x.t)
        IN  o.err = "" /\ x.k <= Len(o.sent)}

\* The recipient of transfer x.
PaidBy(x) == Exec(Ledger, x.c, x.t).sent[x.k].to

\* The original statement of C36: every call back by the recipient of a
\* transfer fails with StateError.
C36_ReentryStateError ==
    \A j \in 1..jobCounter :
       \A x \in TransfersOf(j) :
          \A r \in ReentrantCalls(j) :
             r.sender = PaidBy(x) =>
                ErrorKind(Reentry(x.c, x.t, x.k, r).err) = "StateError"

\* C36: when approve, autoApprove, cancel, expire or resolveDispute is called
\* on the job during a transfer of a refund, a fee or a payout of that job,
\* by the recipient or by any other account, the call fails and sends and
\* changes nothing: with StateError, the status having been written before
\* the transfer, except that resolveDispute by an account other than the
\* arbiter fails with AuthorizationError.  So a transaction sends what was
\* held for the job and no more, and no job has ever been paid more than its
\* payment + workerStake.
C36_ReentrancySafe ==
    /\ \A j \in 1..jobCounter :
          \A x \in TransfersOf(j) :
             /\ Total(Exec(Ledger, x.c, x.t).sent) = Held(Ledger, j)
             /\ \A r \in ReentrantCalls(j) :
                   LET at == AtTransfer(Ledger, Exec(Ledger, x.c, x.t), x.k)
                       e == Reentry(x.c, x.t, x.k, r)
                   IN  /\ e.err # ""
                       /\ e.sent = <<>>
                       /\ e.L = at
                       /\ ErrorKind(e.err) =
                             IF r.op = "resolveDispute" /\ r.sender # owner
                             THEN "AuthorizationError"
                             ELSE "StateError"
    /\ \A j \in 1..jobCounter :
          /\ paidOut[j] <= jobs[j].payment + jobs[j].workerStake
          /\ paidOut[j] + Held(Ledger, j) = jobs[j].payment + jobs[j].workerStake

\* A completion pays the fee and then the payout, and the worker, while it
\* is being paid, calls autoApprove, which has just gone through, again.
C36_Witness ==
    \E j \in 1..jobCounter :
       \E x \in TransfersOf(j) :
          /\ x.k = 2
          /\ x.c.op = "autoApprove"
          /\ PaidBy(x) = jobs[j].worker
          /\ PaidBy(x) # owner
          /\ Reentry(x.c, x.t, 2, Call("autoApprove", PaidBy(x), 0, j, 0, NoAddr)).err
                = "No result to approve"
          /\ Reentry(x.c, x.t, 2, Call("resolveDispute", PaidBy(x), 0, j, TRUE, NoAddr)).err
                = "Not owner"

C38_AtMostOnce ==
    \A id \in WorkerJobIds :
       /\ started[id] <= 1
       /\ started[id] = 1 =>
             /\ id <= jobCounter
             /\ Entered(id, "Claimed") = 1
             /\ jobs[id].worker = Wallet
             /\ jobs[id].status # "Open"
             /\ ~isJobOpen(Ledger, id, now)
             /\ ~Includes(getOpenJobs(Ledger, jobCounter, ScanLimit, now), id)
             /\ ServiceClaimJob(Ledger, Wallet, id, now, "ok").err = "Job not open"

\* The work on a job was started once and given up, its quarantine has
\* expired, and a cycle that kept the job from an earlier list is about to
\* claim it.
C38_Witness ==
    \E id \in WorkerJobIds :
       /\ started[id] = 1
       /\ running[id] = 0
       /\ ~Includes(activeJobs, id)
       /\ id \notin failedJobs
       /\ deletions[id] = 0
       /\ CyclesAt("claim", id) >= 1

\* C40: while the agent is stopped (stop() has returned and start() has not
\* been called since) no step calls claimJob, not even the step of a scan
\* cycle that was awaiting an evaluation when stop() was called; the calls
\* that hold a claimed job go on to work and submit.
C40_NoClaimAfterStop ==
    [][(~isRunning /\ ~isRunning') => Entering("claim") = {}]_vars

\* What does hold: a stopped agent takes no further candidate into
\* evaluation and starts no scan.
StoppedTakesNoCandidate ==
    [][(~isRunning /\ ~isRunning')
       => (Entering("fetch") = {} /\ Entering("evaluate") = {})]_vars

\* The timer of processJob fires for the call working on job id; the
\* submission of job id's result returns or throws.
TimesOut(id) == \E c \in BagToSet(cycles) : c.job = id /\ ProcessingTimeout(c)
SubmitAnswers(id) == \E c \in BagToSet(cycles) : c.job = id /\ SubmitReturns(c)

\* The agent with what the event loop and the proviso of C39 give: a timer
\* that is set fires unless the race was settled before, and a submission
\* that was sent returns or fails.  Nothing is assumed of doWork, of the
\* evaluator, of the ledger queries or of the claim.
AgentJobIds == 1..AgentJobs
FairRelease ==
    \A id \in AgentJobIds : WF_vars(TimesOut(id)) /\ WF_vars(SubmitAnswers(id))
\* The calls of start() and scanAndProcess in progress at once under
\* SpecRelease.
ReleaseCycles == 3
NextRelease ==
    \/ BagCardinality(cycles) < ReleaseCycles /\ Start
    \/ Stop
    \/ \E c \in BagToSet(cycles) : BalanceReturns(c)
    \/ \E h \in armed : BagCardinality(cycles) < ReleaseCycles /\ Tick(h)
    \/ \E c \in BagToSet(cycles) : FetchReturns(c)
    \/ \E c \in BagToSet(cycles) : EvaluateReturns(c)
    \/ \E c \in BagToSet(cycles) : ClaimReturns(c)
    \/ \E c \in BagToSet(cycles) : WorkReturns(c)
    \/ \E c \in BagToSet(cycles) : SubmitReturns(c)
    \/ \E id \in WorkerJobIds : LateWork(id)
    \/ \E id \in WorkerJobIds : FailedJobsDelete(id)
SpecRelease == InitAgent /\ [][NextRelease]_vars /\ FairRelease

\* C39: every job id that is in activeJobs is eventually out of it, given
\* that its submission returns or fails; also when doWork never returns,
\* the processing timeout ending the wait.
C39_CapacityReleased ==
    \A id \in AgentJobIds :
       Includes(activeJobs, id) ~> ~Includes(activeJobs, id)

\* The agent with the timers alone: nothing is assumed of the submission.
\* The timeout covers doWork only, so the wait for a submission that never
\* answers is not ended and C39_CapacityReleased does not hold here.
FairTimers == \A id \in AgentJobIds : WF_vars(TimesOut(id))
SpecTimers == InitAgent /\ [][NextRelease]_vars /\ FairTimers

\* The timeout has ended the wait for a doWork that has not returned: the
\* job is out of activeJobs, and quarantined, while its doWork still runs.
C39_Witness ==
    \E id \in AgentJobIds :
       /\ started[id] = 1
       /\ running[id] = 1
       /\ CyclesAt("work", id) = 0
       /\ ~Includes(activeJobs, id)
       /\ id \in failedJobs

====
